---- MODULE Spec2Model ----
(***************************************************************************)
(* configloader-go: Load, setMapByKey, mergeMaps, verifyFieldsConsistency,  *)
(* fieldTypesConsistent, Metadata.IsDefined / setProvenance and the         *)
(* reflection package's GetStructFields, as a state machine.                *)
(*                                                                         *)
(* A generic value (interface{}) is a record [t, v, m]: t is the Go type   *)
(* of the value ("string", "int64", "int", "map", "nil"), v a scalar       *)
(* payload and m the entries of a map[string]interface{} (a function from  *)
(* key strings to values; <<>> for the empty map and for scalars).         *)
(***************************************************************************)
EXTENDS Integers, Sequences, FiniteSets, TLC

\* ---------------------------------------------------------------- bounds
MaxDocs == 2
MaxDocLeaves == 2
MaxDefaults == 1
MaxEnv == 1
MaxSpellings == 4
MaxCaseChanges == 1
MaxLocations == 2
MaxSearchPaths == 2
MaxMergeLeaves == 2

\* ---------------------------------------------------------------- strings
\* Every key spelling the model uses, in the byte order that
\* sort.Slice(keys, keys[i].String() < keys[j].String()) gives.
KeyOrder ==
  <<"A", "B", "C", "ExportedInt", "ExportedString", "F", "K", "M", "S", "T", "X", "Y",
    "a", "b", "eh", "j", "k", "m", "nope", "sect", "t", "x", "y">>

KeyNames == {KeyOrder[i] : i \in 1..Len(KeyOrder)}

\* Unicode case folding of a key spelling, as strings.EqualFold compares.
ToLower(s) ==
  CASE s = "A" -> "a" [] s = "B" -> "b" [] s = "K" -> "k" [] s = "M" -> "m"
    [] s = "C" -> "c" [] s = "F" -> "f"
    [] s = "ExportedInt" -> "exportedint" [] s = "ExportedString" -> "exportedstring"
    [] s = "S" -> "s" [] s = "T" -> "t" [] s = "X" -> "x" [] s = "Y" -> "y"
    [] OTHER -> s

EqualFold(s1, s2) == ToLower(s1) = ToLower(s2)

\* The keys of a map in the sorted order GetStructFields visits them.
SortedKeys(S) == SelectSeq(KeyOrder, LAMBDA k : k \in S)

\* ---------------------------------------------------------------- values
Scalar(t, v) == [t |-> t, v |-> v, m |-> <<>>]
MapVal(f) == [t |-> "map", v |-> 0, m |-> f]
NilVal == [t |-> "nil", v |-> 0, m |-> <<>>]
EmptyMap == <<>>

\* m[k] = v on a copy of m
Put(f, k, v) == [x \in (DOMAIN f) \cup {k} |-> IF x = k THEN v ELSE f[x]]

\* reflect's Kind().String() and Type().String() of a value held in an interface{}
KindOf(val) ==
  CASE val.t = "map" -> "map"
    [] val.t = "nil" -> "interface"
    [] OTHER -> val.t

TypeOf(val) ==
  CASE val.t = "map" -> "map[string]interface {}"
    [] val.t = "nil" -> "interface {}"
    [] OTHER -> val.t

\* strings.HasPrefix(kind, "int") and strings.HasPrefix(kind, "float") over the kinds used
HasPrefixInt(kind) == kind \in {"int", "int8", "int16", "int32", "int64", "interface"}
HasPrefixFloat(kind) == kind \in {"float32", "float64"}

\* ---------------------------------------------------------------- aliased keys
\* a comparison of the spellings as written
ElemEqualExact(ake, cmp) ==
  \E i \in 1..Len(ake), j \in 1..Len(cmp) : ake[i] = cmp[j]

\* AliasedKeyElem.Equal
ElemEqual(ake, cmp) ==
  \E i \in 1..Len(ake), j \in 1..Len(cmp) : EqualFold(ake[i], cmp[j])

KeyEqual(ak, cmp) ==
  /\ Len(ak) = Len(cmp)
  /\ \A i \in 1..Len(ak) : ElemEqual(ak[i], cmp[i])

HasPrefix(ak, prefix) ==
  /\ Len(prefix) <= Len(ak)
  /\ KeyEqual(SubSeq(ak, 1, Len(prefix)), prefix)

aliasedKeyFromKey(key) == [i \in 1..Len(key) |-> <<key[i]>>]

keyFromAliasedKey(ak) == [i \in 1..Len(ak) |-> ak[i][Len(ak[i])]]

\* index of the first field whose key is Equal to targetKey, 0 when there is none
findStructField(fields, targetKey) ==
  LET hits == {i \in 1..Len(fields) :
                 /\ Len(fields[i].AliasedKey) = Len(targetKey)
                 /\ KeyEqual(targetKey, fields[i].AliasedKey)}
  IN IF hits = {} THEN 0 ELSE CHOOSE i \in hits : \A j \in hits : i <= j

\* ---------------------------------------------------------------- the destination struct
\* type Config struct {
\*     A string                 `toml:"eh"`
\*     B int                    `conf:"optional"`
\*     C string                 `toml:"-"`
\*     S struct {
\*         X int
\*         T struct { Y string }
\*     }                        `toml:"sect" conf:"optional"`
\*     M map[string]interface{} `conf:"optional"`
\*     u int                    // unexported
\* }
Decl(name, alias, ignored, exported, tagOpt, tagType, textUnm, kind, type, fields) ==
  [Name |-> name, Alias |-> alias, Ignored |-> ignored, Exported |-> exported,
   TagOptional |-> tagOpt, TagType |-> tagType, TextUnmarshaler |-> textUnm,
   Kind |-> kind, Type |-> type, Fields |-> fields]

TDecl == <<Decl("Y", "", FALSE, TRUE, FALSE, "", FALSE, "string", "string", <<>>)>>

SDecl ==
  <<Decl("X", "", FALSE, TRUE, FALSE, "", FALSE, "int", "int", <<>>),
    Decl("T", "", FALSE, TRUE, FALSE, "", FALSE, "struct", "struct { Y string }", TDecl)>>

ConfigDecl ==
  <<Decl("A", "eh", FALSE, TRUE, FALSE, "", FALSE, "string", "string", <<>>),
    Decl("B", "", FALSE, TRUE, TRUE, "", FALSE, "int", "int", <<>>),
    Decl("C", "", TRUE, TRUE, FALSE, "", FALSE, "string", "string", <<>>),
    Decl("S", "sect", FALSE, TRUE, TRUE, "", FALSE, "struct", "struct { X int; T struct { Y string } }", SDecl),
    Decl("M", "", FALSE, TRUE, TRUE, "", FALSE, "map", "map[string]interface {}", <<>>),
    Decl("u", "", FALSE, FALSE, FALSE, "", FALSE, "int", "int", <<>>)>>

\* type Bare struct { C string `toml:"-"`; u int }: no field the codec reads
BareDecl ==
  <<Decl("C", "", TRUE, TRUE, FALSE, "", FALSE, "string", "string", <<>>),
    Decl("u", "", FALSE, FALSE, FALSE, "", FALSE, "int", "int", <<>>)>>

\* type textUnmarshalType struct { ExportedString string; ExportedInt int },
\* with UnmarshalText on its pointer
TextUnmarshalDecl ==
  <<Decl("ExportedString", "", FALSE, TRUE, FALSE, "", FALSE, "string", "string", <<>>),
    Decl("ExportedInt", "", FALSE, TRUE, FALSE, "", FALSE, "int", "int", <<>>)>>

\* type Text struct { F textUnmarshalType }
TextDecl ==
  <<Decl("F", "", FALSE, TRUE, FALSE, "", TRUE, "struct",
         "configloader.textUnmarshalType", TextUnmarshalDecl)>>

\* the struct types a destination has
StructDecls == {ConfigDecl, BareDecl, TextDecl}

\* ---------------------------------------------------------------- GetStructFields
\* A StructField; Parent is the parent's AliasedKey (<<>> for a root), a
\* field's Children are the fields whose Parent is its AliasedKey.
StructField(ak, optional, type, kind, expected, parent) ==
  [AliasedKey |-> ak, Optional |-> optional, Type |-> type, Kind |-> kind,
   ExpectedType |-> expected, Parent |-> parent]

\* the expected type taken from the tag alone
makeFieldOfStructTagOnly(keyPrefix, d) ==
  StructField(
    Append(keyPrefix, IF d.Alias # "" THEN <<d.Name, d.Alias>> ELSE <<d.Name>>),
    d.TagOptional,
    d.Type,
    d.Kind,
    d.TagType,
    keyPrefix)

\* makeField for a struct field (structTag # nil)
makeFieldOfStruct(keyPrefix, d) ==
  StructField(
    Append(keyPrefix, IF d.Alias # "" THEN <<d.Name, d.Alias>> ELSE <<d.Name>>),
    d.TagOptional,
    d.Type,
    d.Kind,
    IF d.TextUnmarshaler THEN "string" ELSE d.TagType,
    keyPrefix)

\* makeField for a map entry (structTag = nil); an interface{} holding a value is unwrapped
makeFieldOfMap(keyPrefix, name, val) ==
  StructField(Append(keyPrefix, <<name>>), FALSE, TypeOf(val), KindOf(val), "", keyPrefix)

\* the fields of one struct first, the fields beneath them afterwards
RECURSIVE structFieldsSiblingsFirst(_, _)
structFieldsSiblingsFirst(decls, keyPrefix) ==
  IF decls = <<>> THEN <<>>
  ELSE LET d == Head(decls)
           rest == structFieldsSiblingsFirst(Tail(decls), keyPrefix)
       IN IF ~d.Exported \/ d.Ignored THEN rest
          ELSE LET thisField == makeFieldOfStruct(keyPrefix, d)
               IN <<thisField>>
                  \o rest
                  \o (IF d.Kind = "struct"
                      THEN structFieldsSiblingsFirst(d.Fields, thisField.AliasedKey)
                      ELSE <<>>)

\* getStructFieldsRecursive on a struct: each field, then the fields beneath it
RECURSIVE structFieldsRecursive(_, _)
structFieldsRecursive(decls, keyPrefix) ==
  IF decls = <<>> THEN <<>>
  ELSE LET d == Head(decls)
           rest == structFieldsRecursive(Tail(decls), keyPrefix)
       IN IF ~d.Exported \/ d.Ignored THEN rest
          ELSE LET thisField == makeFieldOfStruct(keyPrefix, d)
               IN <<thisField>>
                  \o (IF d.Kind = "struct"
                      THEN structFieldsRecursive(d.Fields, thisField.AliasedKey)
                      ELSE <<>>)
                  \o rest

RECURSIVE mapFieldsRecursive(_, _, _)
mapFieldsRecursive(f, keys, keyPrefix) ==
  IF keys = <<>> THEN <<>>
  ELSE LET val == f[Head(keys)]
           thisField == makeFieldOfMap(keyPrefix, Head(keys), val)
       IN <<thisField>>
          \o (IF val.t = "map"
              THEN mapFieldsRecursive(val.m, SortedKeys(DOMAIN val.m), thisField.AliasedKey)
              ELSE <<>>)
          \o mapFieldsRecursive(f, Tail(keys), keyPrefix)

\* GetStructFields of a map[string]interface{} (or a pointer to one)
GetStructFieldsOfMap(f) == mapFieldsRecursive(f, SortedKeys(DOMAIN f), <<>>)

\* GetStructFields of a pointer to a zero Config struct
GetStructFieldsOfStruct(decls) == structFieldsRecursive(decls, <<>>)

\* no field has children
ChildrenNone(fields, i) == {}

\* indices of the Children of fields[i]
Children(fields, i) ==
  {j \in 1..Len(fields) : fields[j].Parent = fields[i].AliasedKey}

\* ---------------------------------------------------------------- setMapByKey
\* the value at an exact key path of a map (NilVal when a key is missing)
RECURSIVE valueAt(_, _, _)
valueAt(f, key, i) ==
  IF key[i] \notin DOMAIN f THEN NilVal
  ELSE IF i = Len(key) THEN f[key[i]]
  ELSE IF f[key[i]].t # "map" THEN NilVal
  ELSE valueAt(f[key[i]].m, key, i + 1)

\* the key is taken as given, whatever the struct fields are
resolveAliasedKeyAsGiven(k, structFields) == aliasedKeyFromKey(k)

\* The aliased key setMapByKey writes under: the AliasedKey of the struct
\* field matching the longest prefix of k, then the rest of k as given.
resolveAliasedKey(k, structFields) ==
  LET ak == aliasedKeyFromKey(k)
      found == {n \in 1..Len(k) :
                  findStructField(structFields, aliasedKeyFromKey(SubSeq(k, 1, n))) # 0}
  IN IF found = {} THEN ak
     ELSE LET n == CHOOSE x \in found : \A y \in found : y <= x
              sf == structFields[findStructField(structFields, aliasedKeyFromKey(SubSeq(k, 1, n)))]
          IN sf.AliasedKey \o SubSeq(ak, Len(sf.AliasedKey) + 1, Len(ak))

\* an intermediate map is always made anew, losing what the old one held
RECURSIVE setMapLoopFresh(_, _, _, _)
setMapLoopFresh(currMap, aliasedKey, i, v) ==
  LET present == {c \in DOMAIN currMap : ElemEqual(aliasedKey[i], <<c>>)}
      keyElem == IF present # {} THEN CHOOSE c \in present : TRUE
                 ELSE aliasedKey[i][Len(aliasedKey[i])]
      child == IF keyElem \in DOMAIN currMap THEN currMap[keyElem] ELSE NilVal
  IN IF i = Len(aliasedKey) THEN [err |-> FALSE, m |-> Put(currMap, keyElem, v)]
     ELSE IF child.t \notin {"nil", "map"} THEN [err |-> TRUE, m |-> currMap]
     ELSE LET r == setMapLoopFresh(EmptyMap, aliasedKey, i + 1, v)
          IN [err |-> r.err, m |-> Put(currMap, keyElem, MapVal(r.m))]

\* the loop of setMapByKey from position i of aliasedKey downwards, on currMap
RECURSIVE setMapLoop(_, _, _, _)
setMapLoop(currMap, aliasedKey, i, v) ==
  LET present == {c \in DOMAIN currMap : ElemEqual(aliasedKey[i], <<c>>)}
      keyElem == IF present # {} THEN CHOOSE c \in present : TRUE
                 ELSE aliasedKey[i][Len(aliasedKey[i])]
      child == IF keyElem \in DOMAIN currMap THEN currMap[keyElem] ELSE NilVal
  IN IF i = Len(aliasedKey) THEN [err |-> FALSE, m |-> Put(currMap, keyElem, v)]
     ELSE IF child.t = "nil"
     THEN LET r == setMapLoop(EmptyMap, aliasedKey, i + 1, v)
          IN [err |-> r.err, m |-> Put(currMap, keyElem, MapVal(r.m))]
     ELSE IF child.t # "map" THEN [err |-> TRUE, m |-> currMap]
     ELSE LET r == setMapLoop(child.m, aliasedKey, i + 1, v)
          IN [err |-> r.err, m |-> Put(currMap, keyElem, MapVal(r.m))]

\* setMapByKey(m, k, v, structFields): the error flag and the map afterwards
setMapByKey(m, k, v, structFields) ==
  LET aliasedKey == resolveAliasedKey(k, structFields)
  IN IF Len(aliasedKey) = 0 THEN [err |-> FALSE, m |-> m]
     ELSE setMapLoop(m, aliasedKey, 1, v)

\* ---------------------------------------------------------------- mergeMaps
\* keysMerged, dst afterwards and whether a setMapByKey call returned an
\* error (mergeMaps drops that return value).
RECURSIVE mergeLoop(_, _, _, _, _, _)
mergeLoop(srcStructFields, dstStructFields, src, structFields, i, acc) ==
  IF i > Len(srcStructFields) THEN acc
  ELSE LET srcField == srcStructFields[i]
           nextIsChild ==
             /\ i + 1 <= Len(srcStructFields)
             /\ HasPrefix(srcStructFields[i + 1].AliasedKey, srcField.AliasedKey)
           existsInDst == findStructField(dstStructFields, srcField.AliasedKey) # 0
           key == [n \in 1..Len(srcField.AliasedKey) |-> srcField.AliasedKey[n][1]]
           val == valueAt(src, key, 1)
           r == setMapByKey(acc.dst, key, val, structFields)
       IN IF srcField.Kind = "map" /\ (nextIsChild \/ existsInDst)
          THEN mergeLoop(srcStructFields, dstStructFields, src, structFields, i + 1, acc)
          ELSE mergeLoop(srcStructFields, dstStructFields, src, structFields, i + 1,
                         [dst |-> r.m,
                          keysMerged |-> Append(acc.keysMerged, key),
                          dropped |-> acc.dropped \/ r.err])

mergeMaps(dst, src, structFields) ==
  mergeLoop(GetStructFieldsOfMap(src), GetStructFieldsOfMap(dst), src, structFields, 1,
            [dst |-> dst, keysMerged |-> <<>>, dropped |-> FALSE])

\* ---------------------------------------------------------------- fieldTypesConsistent
\* toml.Codec.FieldTypesConsistent: no codec-specific exception
codecFieldTypesConsistent(check, gold) == [noDeeper |-> FALSE, err |-> TRUE]

\* "*" + t
PtrTo(t) ==
  CASE t = "string" -> "*string" [] t = "int64" -> "*int64" [] t = "int" -> "*int"
    [] OTHER -> "*"

\* the exact match compares the types only
fieldTypesConsistentTypeOnly(check, gold) ==
  LET noDeeper == (gold.Kind = "map")
  IN IF gold.ExpectedType # ""
     THEN IF check.Type # gold.ExpectedType /\ check.Kind # gold.ExpectedType
          THEN [noDeeper |-> FALSE, err |-> TRUE]
          ELSE [noDeeper |-> TRUE, err |-> FALSE]
     ELSE IF check.Type = gold.Type
     THEN [noDeeper |-> noDeeper, err |-> FALSE]
     ELSE IF gold.Type = PtrTo(check.Type)
     THEN [noDeeper |-> noDeeper, err |-> FALSE]
     ELSE IF gold.Kind = "struct" /\ check.Kind = "map"
     THEN [noDeeper |-> noDeeper, err |-> FALSE]
     ELSE IF gold.Kind = "map" /\ check.Type = "map[string]interface {}"
     THEN [noDeeper |-> noDeeper, err |-> FALSE]
     ELSE IF HasPrefixInt(gold.Kind) /\ HasPrefixInt(check.Kind)
     THEN [noDeeper |-> noDeeper, err |-> FALSE]
     ELSE IF HasPrefixFloat(gold.Kind) /\ HasPrefixFloat(check.Kind)
     THEN [noDeeper |-> noDeeper, err |-> FALSE]
     ELSE IF gold.Kind = "slice" /\ check.Kind = "slice"
     THEN [noDeeper |-> TRUE, err |-> FALSE]
     ELSE LET c == codecFieldTypesConsistent(check, gold)
          IN IF ~c.err THEN [noDeeper |-> c.noDeeper, err |-> FALSE]
             ELSE [noDeeper |-> FALSE, err |-> TRUE]

fieldTypesConsistent(check, gold) ==
  LET noDeeper == (gold.Kind = "map")
  IN IF gold.ExpectedType # ""
     THEN IF check.Type # gold.ExpectedType /\ check.Kind # gold.ExpectedType
          THEN [noDeeper |-> FALSE, err |-> TRUE]
          ELSE [noDeeper |-> TRUE, err |-> FALSE]
     ELSE IF check.Type = gold.Type \/ check.Type = gold.Kind
     THEN [noDeeper |-> noDeeper, err |-> FALSE]
     ELSE IF gold.Type = PtrTo(check.Type)
     THEN [noDeeper |-> noDeeper, err |-> FALSE]
     ELSE IF gold.Kind = "struct" /\ check.Kind = "map"
     THEN [noDeeper |-> noDeeper, err |-> FALSE]
     ELSE IF gold.Kind = "map" /\ check.Type = "map[string]interface {}"
     THEN [noDeeper |-> noDeeper, err |-> FALSE]
     ELSE IF HasPrefixInt(gold.Kind) /\ HasPrefixInt(check.Kind)
     THEN [noDeeper |-> noDeeper, err |-> FALSE]
     ELSE IF HasPrefixFloat(gold.Kind) /\ HasPrefixFloat(check.Kind)
     THEN [noDeeper |-> noDeeper, err |-> FALSE]
     ELSE IF gold.Kind = "slice" /\ check.Kind = "slice"
     THEN [noDeeper |-> TRUE, err |-> FALSE]
     ELSE LET c == codecFieldTypesConsistent(check, gold)
          IN IF ~c.err THEN [noDeeper |-> c.noDeeper, err |-> FALSE]
             ELSE [noDeeper |-> FALSE, err |-> TRUE]

\* ---------------------------------------------------------------- verifyFieldsConsistency
underSkipPrefix(ak, skipPrefixes) ==
  \E s \in 1..Len(skipPrefixes) : HasPrefix(ak, skipPrefixes[s])

\* s without its n-th element
RemoveAt(s, n) == SubSeq(s, 1, n - 1) \o SubSeq(s, n + 1, Len(s))

\* a candidate field that the gold fields lack is passed over
RECURSIVE checkFieldsLoopLenient(_, _, _, _, _)
checkFieldsLoopLenient(check, gold, i, cands, skipPrefixes) ==
  IF i > Len(check) THEN [err |-> "none", cands |-> cands, skipPrefixes |-> skipPrefixes]
  ELSE IF underSkipPrefix(check[i].AliasedKey, skipPrefixes)
  THEN checkFieldsLoopLenient(check, gold, i + 1, cands, skipPrefixes)
  ELSE LET g == findStructField(gold, check[i].AliasedKey)
       IN IF g = 0
          THEN checkFieldsLoopLenient(check, gold, i + 1, cands, skipPrefixes)
          ELSE LET hits == {c \in 1..Len(cands) :
                              KeyEqual(gold[cands[c]].AliasedKey, gold[g].AliasedKey)}
                   cands2 == IF hits = {} THEN cands
                             ELSE RemoveAt(cands, CHOOSE c \in hits : \A d \in hits : c <= d)
                   r == fieldTypesConsistent(check[i], gold[g])
               IN IF r.err
                  THEN [err |-> "TypeMismatch", cands |-> cands2, skipPrefixes |-> skipPrefixes]
                  ELSE checkFieldsLoopLenient(check, gold, i + 1, cands2,
                                       IF r.noDeeper
                                       THEN Append(skipPrefixes, check[i].AliasedKey)
                                       ELSE skipPrefixes)

\* CheckFieldsLoop: cands are indices into gold (absentFieldsCandidates)
RECURSIVE checkFieldsLoop(_, _, _, _, _)
checkFieldsLoop(check, gold, i, cands, skipPrefixes) ==
  IF i > Len(check) THEN [err |-> "none", cands |-> cands, skipPrefixes |-> skipPrefixes]
  ELSE IF underSkipPrefix(check[i].AliasedKey, skipPrefixes)
  THEN checkFieldsLoop(check, gold, i + 1, cands, skipPrefixes)
  ELSE LET g == findStructField(gold, check[i].AliasedKey)
       IN IF g = 0
          THEN [err |-> "UnknownField", cands |-> cands, skipPrefixes |-> skipPrefixes]
          ELSE LET hits == {c \in 1..Len(cands) :
                              KeyEqual(gold[cands[c]].AliasedKey, gold[g].AliasedKey)}
                   cands2 == IF hits = {} THEN cands
                             ELSE RemoveAt(cands, CHOOSE c \in hits : \A d \in hits : c <= d)
                   r == fieldTypesConsistent(check[i], gold[g])
               IN IF r.err
                  THEN [err |-> "TypeMismatch", cands |-> cands2, skipPrefixes |-> skipPrefixes]
                  ELSE checkFieldsLoop(check, gold, i + 1, cands2,
                                       IF r.noDeeper
                                       THEN Append(skipPrefixes, check[i].AliasedKey)
                                       ELSE skipPrefixes)

\* the candidates left after the main pass are returned as they are
verifyFieldsConsistencyUnfiltered(check, gold) ==
  LET r == checkFieldsLoop(check, gold, 1, [i \in 1..Len(gold) |-> i], <<>>)
  IN IF r.err # "none" THEN [err |-> r.err, absentFields |-> <<>>]
     ELSE [err |-> "none", absentFields |-> r.cands]

\* err is "none", "UnknownField" or "TypeMismatch"; absentFields are indices into gold
verifyFieldsConsistency(check, gold) ==
  LET r == checkFieldsLoop(check, gold, 1, [i \in 1..Len(gold) |-> i], <<>>)
  IN IF r.err # "none" THEN [err |-> r.err, absentFields |-> <<>>]
     ELSE [err |-> "none",
           absentFields |->
             SelectSeq(r.cands,
                       LAMBDA c : ~underSkipPrefix(gold[c].AliasedKey, r.skipPrefixes))]

\* ---------------------------------------------------------------- Metadata
\* every recording adds an entry
setProvenanceAppend(provs, structFields, k, src) ==
  LET n == findStructField(structFields, aliasedKeyFromKey(k))
      ak == IF n # 0 THEN structFields[n].AliasedKey ELSE aliasedKeyFromKey(k)
  IN Append(provs, [aliasedKey |-> ak, Key |-> keyFromAliasedKey(ak), Src |-> src])

\* setProvenance: add or overwrite the provenance src for key k
setProvenance(provs, structFields, k, src) ==
  LET n == findStructField(structFields, aliasedKeyFromKey(k))
      ak == IF n # 0 THEN structFields[n].AliasedKey ELSE aliasedKeyFromKey(k)
      hits == {i \in 1..Len(provs) : KeyEqual(ak, provs[i].aliasedKey)}
  IN IF hits # {}
     THEN LET i == CHOOSE x \in hits : \A y \in hits : x <= y
          IN [provs EXCEPT ![i].Src = src]
     ELSE Append(provs, [aliasedKey |-> ak, Key |-> keyFromAliasedKey(ak), Src |-> src])

RECURSIVE setProvenances(_, _, _, _)
setProvenances(provs, structFields, keys, src) ==
  IF keys = <<>> THEN provs
  ELSE setProvenances(setProvenance(provs, structFields, Head(keys), src),
                      structFields, Tail(keys), src)

\* the walk of IsDefined through ConfigMap when there are no structFields
RECURSIVE definedInMap(_, _, _)
definedInMap(currMap, key, i) ==
  IF i > Len(key) THEN TRUE
  ELSE IF key[i] \notin DOMAIN currMap THEN FALSE
  ELSE IF i < Len(key)
  THEN IF currMap[key[i]].t # "map" THEN FALSE
       ELSE definedInMap(currMap[key[i]].m, key, i + 1)
  ELSE TRUE

\* Metadata.IsDefined: absent holds the AliasedKeys of md.absentFields
IsDefined(mdStructFields, mdAbsentFields, mdConfigMap, key) ==
  LET aliasedKey == aliasedKeyFromKey(key)
  IN IF findStructField(mdAbsentFields, aliasedKey) # 0
     THEN [defined |-> FALSE, err |-> FALSE]
     ELSE IF findStructField(mdStructFields, aliasedKey) # 0
     THEN [defined |-> TRUE, err |-> FALSE]
     ELSE IF Len(mdStructFields) = 0
     THEN [defined |-> definedInMap(mdConfigMap, key, 1), err |-> FALSE]
     ELSE [defined |-> FALSE, err |-> TRUE]

\* ---------------------------------------------------------------- codec (toml)
DeclNames(decls) == {decls[i].Name : i \in 1..Len(decls)}
DeclOf(decls, name) == decls[CHOOSE i \in 1..Len(decls) : decls[i].Name = name]

\* the key the codec reads and writes a struct field under: the tag alias, else the name
codecFieldName(d) == IF d.Alias # "" THEN d.Alias ELSE d.Name

\* the zero value of a struct type, keyed by Go field name
RECURSIVE zeroStruct(_)
zeroStruct(decls) ==
  [n \in DeclNames(decls) |->
     LET d == DeclOf(decls, n)
     IN CASE d.Kind = "struct" -> [t |-> "struct", v |-> 0, m |-> zeroStruct(d.Fields)]
          [] d.Kind = "map" -> NilVal
          [] OTHER -> Scalar(d.Type, 0)]

\* codec.Unmarshal(data, &struct): fields the document names are overwritten
\* with the document's value converted to the field's type, the others kept
RECURSIVE unmarshalStruct(_, _, _)
unmarshalStruct(decls, sv, data) ==
  [n \in DOMAIN sv |->
     LET d == DeclOf(decls, n)
         hits == {c \in DOMAIN data : EqualFold(c, codecFieldName(d))}
         val == data[CHOOSE c \in hits : TRUE]
     IN IF ~d.Exported \/ d.Ignored \/ hits = {} THEN sv[n]
        ELSE CASE d.TextUnmarshaler ->
                    IF val.t = "string"
                    THEN [sv[n] EXCEPT !.m = [sv[n].m EXCEPT !["ExportedString"] =
                                                Scalar("string", val.v)]]
                    ELSE sv[n]
               [] d.Kind = "struct" ->
                    IF val.t = "map"
                    THEN [t |-> "struct", v |-> 0, m |-> unmarshalStruct(d.Fields, sv[n].m, val.m)]
                    ELSE sv[n]
               [] d.Kind = "map" -> val
               [] OTHER -> Scalar(d.Type, val.v)]

\* integers written as text
tomlTypeOfText(type) ==
  CASE type \in {"int", "int64"} -> "string"
    [] OTHER -> type

\* the document type a struct field's value is written as
tomlTypeOf(type) ==
  CASE type = "int" -> "int64"
    [] OTHER -> type

\* codec.Marshal(struct) followed by codec.Unmarshal into a map[string]interface{}
RECURSIVE marshalStruct(_, _)
marshalStruct(decls, sv) ==
  LET written == {n \in DOMAIN sv :
                    LET d == DeclOf(decls, n)
                    IN d.Exported /\ ~d.Ignored /\ sv[n].t # "nil"}
  IN [c \in {codecFieldName(DeclOf(decls, n)) : n \in written} |->
        LET n == CHOOSE x \in written : codecFieldName(DeclOf(decls, x)) = c
            d == DeclOf(decls, n)
        IN CASE d.Kind = "struct" -> MapVal(marshalStruct(d.Fields, sv[n].m))
             [] d.Kind = "map" -> sv[n]
             [] OTHER -> Scalar(tomlTypeOf(d.Type), sv[n].v)]

\* ---------------------------------------------------------------- inputs
\* environment strings: EnvDigits is the string "7", EnvWord the string "x"
EnvDigits == 1
EnvWord == 2
Unset == 0

\* EnvOverride.Conv: strconv.Atoi on the environment string
Atoi(str) ==
  IF str.v = EnvDigits THEN [err |-> FALSE, val |-> Scalar("int", 7)]
  ELSE [err |-> TRUE, val |-> NilVal]

\* os.LookupEnv
LookupEnv(environ, name) ==
  [ok |-> environ[name] # Unset, val |-> Scalar("string", environ[name])]

\* the label without its "$"
DollarNameBare(name) == name

\* "$" + eo.EnvVar
DollarName(name) ==
  CASE name = "ENVA" -> "$ENVA" [] name = "ENVB" -> "$ENVB" [] OTHER -> "$"

\* fmt.Sprintf("[%d]", i) for the i-th reader (i counts from 1 here, from 0 in Go)
IndexLabel(i) ==
  CASE i = 1 -> "[0]" [] i = 2 -> "[1]" [] i = 3 -> "[2]" [] i = 4 -> "[3]" [] OTHER -> "[n]"

\* the sets the arguments of Load are drawn from
MaxInputs == 2

\* the name given to the i-th reader
NameLabel(i) ==
  CASE i = 1 -> "n1" [] i = 2 -> "n2" [] i = 3 -> "n3" [] OTHER -> "n"

\* readerNames: nil, or a slice of up to n names (the empty slice counts as one)
ReaderNames(n) ==
  {[isNil |-> TRUE, names |-> <<>>]} \cup
  {[isNil |-> FALSE, names |-> [i \in 1..k |-> NameLabel(i)]] :
     k \in {j \in 0..n : n >= 1}}

\* what a choice of readerNames and of the destination's pointer takes of MaxInputs
namesCount(names) ==
  IF names.isNil THEN 0 ELSE IF names.names = <<>> THEN 1 ELSE Len(names.names)

ptrCount(ptr) == IF ptr = "ptr" THEN 0 ELSE 1

Leaf(path, val) == [path |-> path, val |-> val]

\* leaves of the documents read into a *Config
StructDocLeaves ==
  {Leaf(<<"a">>, Scalar("string", 1)),
   Leaf(<<"eh">>, Scalar("string", 2)),
   Leaf(<<"b">>, Scalar("int64", 1)),
   Leaf(<<"b">>, Scalar("string", 1)),
   Leaf(<<"sect", "x">>, Scalar("int64", 1)),
   Leaf(<<"S", "X">>, Scalar("int64", 2)),
   Leaf(<<"sect", "t", "y">>, Scalar("string", 1)),
   Leaf(<<"sect">>, MapVal(EmptyMap)),
   Leaf(<<"nope">>, Scalar("int64", 1)),
   Leaf(<<"sect", "nope">>, Scalar("int64", 1)),
   Leaf(<<"sect", "t", "nope">>, Scalar("int64", 1)),
   Leaf(<<"m", "k">>, Scalar("int64", 1)),
   Leaf(<<"m", "k", "j">>, Scalar("int64", 2))}

\* leaves of the documents read into a *map[string]interface{}
MapDocLeaves ==
  {Leaf(<<"a">>, Scalar("string", 1)),
   Leaf(<<"A">>, Scalar("string", 2)),
   Leaf(<<"sect">>, Scalar("int64", 1)),
   Leaf(<<"sect", "x">>, Scalar("int64", 1)),
   Leaf(<<"sect", "X">>, Scalar("int64", 2)),
   Leaf(<<"sect">>, MapVal(EmptyMap))}

FoldPath(path) == [i \in 1..Len(path) |-> ToLower(path[i])]
IsPrefix(p, q) == Len(p) <= Len(q) /\ SubSeq(q, 1, Len(p)) = p
Related(p, q) == IsPrefix(FoldPath(p), FoldPath(q)) \/ IsPrefix(FoldPath(q), FoldPath(p))

\* leaves that can stand in one document: no key twice, no key both branch and leaf
ConsistentLeaves(S) == \A l1, l2 \in S : l1 # l2 => ~Related(l1.path, l2.path)

RECURSIVE buildMap(_)
buildMap(S) ==
  IF S = {} THEN EmptyMap
  ELSE LET l == CHOOSE x \in S : TRUE
       IN setMapByKey(buildMap(S \ {l}), l.path, l.val, <<>>).m

LeafSets(leaves) ==
  {S \in SUBSET leaves : S # {} /\ Cardinality(S) <= MaxDocLeaves /\ ConsistentLeaves(S)}

\* what codec.Unmarshal gives for a reader: a decoded document, with its leaves
Docs(leaves) == {[leaves |-> S, map |-> buildMap(S)] : S \in LeafSets(leaves)}

SeqsUpTo(S, n) == UNION {[1..k -> S] : k \in 0..n}

Min(a, b) == IF a <= b THEN a ELSE b

\* the sequences of at most n documents that hold at most budget leaves together
RECURSIVE DocSeqs(_, _, _)
DocSeqs(docs, n, budget) ==
  IF n = 0 THEN {<<>>}
  ELSE {<<>>} \cup
       UNION {LET rests == DocSeqs(docs, n - 1, budget - k)
              IN {<<d>> \o rest : d \in {x \in docs : Cardinality(x.leaves) = k}, rest \in rests} :
                k \in 1..budget}

DefaultOf(key, val) == [Key |-> key, Val |-> val]

StructDefaults ==
  {DefaultOf(<<"A">>, Scalar("string", 3)),
   DefaultOf(<<"b">>, Scalar("int", 3)),
   DefaultOf(<<"B">>, Scalar("string", 3)),
   DefaultOf(<<"S", "x">>, Scalar("int", 3)),
   DefaultOf(<<"sect", "T", "Y">>, Scalar("string", 3)),
   DefaultOf(<<"sect">>, MapVal([k \in {"x"} |-> Scalar("int", 3)])),
   DefaultOf(<<"nope">>, Scalar("int", 3)),
   DefaultOf(<<>>, Scalar("int", 3))}

MapDefaults ==
  {DefaultOf(<<"a">>, Scalar("string", 3)),
   DefaultOf(<<"sect", "x">>, Scalar("int", 3)),
   DefaultOf(<<"sect">>, MapVal([k \in {"x"} |-> Scalar("int", 3)])),
   DefaultOf(<<"sect">>, Scalar("int", 3))}

EnvOverrideOf(envVar, key, conv) == [EnvVar |-> envVar, Key |-> key, Conv |-> conv]

StructEnvOverrides ==
  {EnvOverrideOf("ENVB", <<"B">>, "Atoi"),
   EnvOverrideOf("ENVB", <<"b">>, "nil"),
   EnvOverrideOf("ENVA", <<"A">>, "nil"),
   EnvOverrideOf("ENVA", <<"nope">>, "nil"),
   EnvOverrideOf("ENVA", <<>>, "nil"),
   EnvOverrideOf("ENVB", <<"sect", "x">>, "Atoi")}

MapEnvOverrides ==
  {EnvOverrideOf("ENVA", <<"a">>, "nil"),
   EnvOverrideOf("ENVB", <<"sect", "x">>, "Atoi")}

EnvVars == {"ENVA", "ENVB"}

\* leaves of the documents read into a *Bare and a *Text
BareDocLeaves == {Leaf(<<"C">>, Scalar("string", 1))}

TextDocLeaves ==
  {Leaf(<<"F">>, Scalar("string", 1)),
   Leaf(<<"F", "ExportedString">>, Scalar("string", 2))}

DocLeavesOf(decl) ==
  IF decl = BareDecl THEN BareDocLeaves
  ELSE IF decl = TextDecl THEN TextDocLeaves
  ELSE StructDocLeaves

DefaultsOf(decl) ==
  IF decl = BareDecl THEN {DefaultOf(<<"C">>, Scalar("string", 3))}
  ELSE IF decl = TextDecl THEN {DefaultOf(<<"F">>, Scalar("string", 3))}
  ELSE StructDefaults

EnvOverridesOf(decl) ==
  IF decl = BareDecl THEN {EnvOverrideOf("ENVA", <<"C">>, "nil")}
  ELSE IF decl = TextDecl THEN {EnvOverrideOf("ENVA", <<"F">>, "nil")}
  ELSE StructEnvOverrides

\* the process environment: only variables an override names are ever set
Environs(eos) ==
  {e \in [EnvVars -> {Unset, EnvDigits, EnvWord}] :
     /\ \A n \in EnvVars :
          e[n] # Unset => \E i \in 1..Len(eos) : eos[i].EnvVar = n
     /\ e["ENVA"] # EnvDigits}

\* the map a *map[string]interface{} destination holds before the call
MapDestinations ==
  {EmptyMap,
   [k \in {"a", "sect"} |->
      IF k = "a" THEN Scalar("string", 9)
      ELSE MapVal([j \in {"x", "y"} |-> Scalar("int64", 9)])],
   [k \in {"sect"} |-> Scalar("int64", 5)],
   [k \in {"sect"} |-> NilVal]}

RECURSIVE leafCount(_, _)
leafCount(rs, i) ==
  IF i > Len(rs) THEN 0 ELSE Cardinality(rs[i].leaves) + leafCount(rs, i + 1)

\* ---------------------------------------------------------------- state
VARIABLES
  resultIsMap,      \* Load: _, resultIsMap := result.(*map[string]interface{})
  resultDecl,       \* the struct type result points to (<<>> for a map)
  readers,          \* Load argument: the decoded documents, in order
  readerNames,      \* Load argument: [isNil, names]
  resultPtr,        \* what result holds: "ptr", "value" (not a pointer) or "nilptr"
  readCount,        \* how many readers ioutil.ReadAll has consumed
  defaults,         \* Load argument
  envOverrides,     \* Load argument
  environ,          \* the process environment
  result0,          \* *result before the call
  result,           \* *result
  structFields,     \* md.structFields
  absentFields,     \* md.absentFields, as indices into structFields
  ConfigMap,        \* md.ConfigMap
  Provenances,      \* md.Provenances
  accumConfigMap,
  defaultsMap,
  envMap,
  pc,               \* position in Load
  idx,              \* loop index of the current phase
  err,              \* the error Load returns
  dropped,          \* a setMapByKey error was discarded by mergeMaps
  isDefined,        \* the last IsDefined call on md and what it returned
  round,            \* 1 in the first Load call, 2 in one that reloads its snapshot
  firstSnapshot,    \* md.ConfigMap as the first call returned it
  k1, k2,           \* AliasedKey.Equal: the two keys compared
  equalCall,        \* what k1.Equal(k2) and k2.Equal(k1) returned last
  firstEqual,       \* what the first comparison of the two keys returned
  caseChanges,      \* how many spellings had their letter case changed since
  fileLocations,    \* FindFiles argument
  fileSystem,       \* what osOpen does with each path: "file", "notexist" or "denied"
  ffPc,             \* where FindFiles is: "start", "open", "deferred", "done"
  ffLoc, ffPath,    \* the loop indices over fileLocations and loc.SearchPaths
  ffReaders, ffClosers, ffReaderNames, ffErr,  \* FindFiles' named results
  openFiles,        \* the files the process holds open
  callPc,           \* the function called on its own ("idle" when none), "returned" after
  callArgs,         \* the arguments of that call
  callRet           \* what the call returned

loadVars ==
  <<resultIsMap, resultDecl, resultPtr, readers, readerNames, defaults, envOverrides,
    environ, result0, readCount,
    result, structFields, absentFields, ConfigMap, Provenances, accumConfigMap,
    defaultsMap, envMap, pc, idx, err, dropped, isDefined, round, firstSnapshot>>

roundVars == <<round, firstSnapshot>>

keyVars == <<k1, k2, equalCall, firstEqual, caseChanges>>

fileVars ==
  <<fileLocations, fileSystem, ffPc, ffLoc, ffPath, ffReaders, ffClosers, ffReaderNames,
    ffErr, openFiles>>

callVars == <<callPc, callArgs, callRet>>

vars == <<loadVars, keyVars, fileVars, callVars>>

inputs ==
  <<resultIsMap, resultDecl, resultPtr, readers, readerNames, defaults, envOverrides,
    environ, result0>>

NoErr == [kind |-> "nil", phase |-> "", index |-> 0, fields |-> <<>>]
Err(kind, phase, index) == [kind |-> kind, phase |-> phase, index |-> index, fields |-> <<>>]
NoCall == [called |-> FALSE, key |-> <<>>, defined |-> FALSE, err |-> FALSE]
NoEqual == [called |-> FALSE, forward |-> FALSE, backward |-> FALSE]

\* no key comparison is under way
KeysIdle ==
  /\ k1 = <<>>
  /\ k2 = <<>>
  /\ equalCall = NoEqual
  /\ firstEqual = NoEqual
  /\ caseChanges = 0

\* FindFiles is not called
FilesIdle ==
  /\ fileLocations = <<>>
  /\ fileSystem = <<>>
  /\ ffPc = "idle"
  /\ ffLoc = 0
  /\ ffPath = 0
  /\ ffReaders = <<>>
  /\ ffClosers = <<>>
  /\ ffReaderNames = <<>>
  /\ ffErr = "nil"
  /\ openFiles = {}

\* no function is called on its own
CallIdle ==
  /\ callPc = "idle"
  /\ callArgs = <<>>
  /\ callRet = <<>>

Init ==
  /\ resultIsMap \in BOOLEAN
  /\ resultDecl \in (IF resultIsMap THEN {<<>>} ELSE StructDecls)
  /\ resultPtr \in {"ptr", "value", "nilptr"}
  /\ readers \in DocSeqs(Docs(IF resultIsMap THEN MapDocLeaves ELSE DocLeavesOf(resultDecl)),
                         MaxDocs, MaxInputs - ptrCount(resultPtr))
  /\ readerNames \in ReaderNames(Min(MaxDocs + 1, MaxInputs - ptrCount(resultPtr)
                                                  - leafCount(readers, 1)))
  /\ defaults \in SeqsUpTo(IF resultIsMap THEN MapDefaults ELSE DefaultsOf(resultDecl),
                           Min(MaxDefaults, MaxInputs - ptrCount(resultPtr)
                                              - leafCount(readers, 1)
                                              - namesCount(readerNames)))
  /\ envOverrides \in SeqsUpTo(IF resultIsMap THEN MapEnvOverrides
                               ELSE EnvOverridesOf(resultDecl),
                               Min(MaxEnv, MaxInputs - ptrCount(resultPtr)
                                             - leafCount(readers, 1)
                                             - namesCount(readerNames) - Len(defaults)))
  /\ environ \in Environs(envOverrides)
  /\ result0 \in (IF resultPtr = "nilptr" THEN {NilVal}
                  ELSE IF resultIsMap THEN MapDestinations ELSE {zeroStruct(resultDecl)})
  /\ readCount = 0
  /\ result = result0
  /\ structFields = <<>>
  /\ absentFields = <<>>
  /\ ConfigMap = EmptyMap
  /\ Provenances = <<>>
  /\ accumConfigMap = EmptyMap
  /\ defaultsMap = EmptyMap
  /\ envMap = EmptyMap
  /\ pc = "start"
  /\ idx = 0
  /\ err = NoErr
  /\ dropped = FALSE
  /\ isDefined = NoCall
  /\ round = 1
  /\ firstSnapshot = EmptyMap
  /\ KeysIdle
  /\ FilesIdle
  /\ CallIdle

\* ---------------------------------------------------------------- Load
\* the name of the i-th reader
readerName(i) ==
  IF Len(readerNames.names) >= i THEN readerNames.names[i] ELSE IndexLabel(i)

\* readerNames != nil && len(readerNames) != len(readers)
namesMismatchNever(names, n) == FALSE

namesMismatch(names, n) == ~names.isNil /\ Len(names.names) # n

\* argument checks and md.structFields = GetStructFields(result)
LoadStart ==
  /\ pc = "start"
  /\ IF \/ namesMismatch(readerNames, Len(readers))
        \/ resultPtr # "ptr"
     THEN /\ pc' = "done"
          /\ err' = Err("InvalidArgument", "start", 0)
          /\ UNCHANGED <<structFields, idx>>
     ELSE /\ structFields' = IF resultIsMap THEN GetStructFieldsOfMap(result)
                             ELSE GetStructFieldsOfStruct(resultDecl)
          /\ pc' = "defaults"
          /\ idx' = 1
          /\ err' = err
  /\ UNCHANGED <<callVars, keyVars, fileVars, roundVars, inputs, readCount, result, absentFields, ConfigMap, Provenances,
                 accumConfigMap, defaultsMap, envMap, dropped, isDefined>>

\* a default whose key matches no field is passed over
ApplyDefaultLenient ==
  /\ pc = "defaults"
  /\ idx <= Len(defaults)
  /\ LET dflt == defaults[idx]
         n == findStructField(structFields, aliasedKeyFromKey(dflt.Key))
         key == IF resultIsMap \/ n = 0 THEN dflt.Key
                ELSE keyFromAliasedKey(structFields[n].AliasedKey)
         sf == IF resultIsMap \/ n = 0 THEN structFields
               ELSE [structFields EXCEPT ![n].Optional = TRUE]
         r == setMapByKey(defaultsMap, key, dflt.Val, sf)
     IN IF ~resultIsMap /\ n = 0
        THEN /\ idx' = idx + 1
             /\ UNCHANGED <<structFields, defaultsMap, Provenances, pc, err>>
        ELSE IF r.err
        THEN /\ pc' = "done"
             /\ err' = Err("StructureConflict", "defaults", idx)
             /\ structFields' = sf
             /\ defaultsMap' = r.m
             /\ UNCHANGED <<Provenances, idx>>
        ELSE /\ structFields' = sf
             /\ defaultsMap' = r.m
             /\ Provenances' = setProvenance(Provenances, sf, key, "[default]")
             /\ idx' = idx + 1
             /\ UNCHANGED <<pc, err>>
  /\ UNCHANGED <<callVars, keyVars, fileVars, roundVars, inputs, readCount, result, absentFields,
                 ConfigMap, accumConfigMap, envMap, dropped, isDefined>>

\* one iteration of the loop over defaults
ApplyDefault ==
  /\ pc = "defaults"
  /\ idx <= Len(defaults)
  /\ LET dflt == defaults[idx]
         n == findStructField(structFields, aliasedKeyFromKey(dflt.Key))
         notFound == ~resultIsMap /\ n = 0
         key == IF resultIsMap \/ n = 0 THEN dflt.Key
                ELSE keyFromAliasedKey(structFields[n].AliasedKey)
         sf == IF resultIsMap \/ n = 0 THEN structFields
               ELSE [structFields EXCEPT ![n].Optional = TRUE]
         r == setMapByKey(defaultsMap, key, dflt.Val, sf)
     IN IF notFound
        THEN /\ pc' = "done"
             /\ err' = Err("UnknownField", "defaults", idx)
             /\ UNCHANGED <<structFields, defaultsMap, Provenances, idx>>
        ELSE IF r.err
        THEN /\ pc' = "done"
             /\ err' = Err("StructureConflict", "defaults", idx)
             /\ structFields' = sf
             /\ defaultsMap' = r.m
             /\ UNCHANGED <<Provenances, idx>>
        ELSE /\ structFields' = sf
             /\ defaultsMap' = r.m
             /\ Provenances' = setProvenance(Provenances, sf, key, "[default]")
             /\ idx' = idx + 1
             /\ UNCHANGED <<pc, err>>
  /\ UNCHANGED <<callVars, keyVars, fileVars, roundVars, inputs, readCount, result, absentFields, ConfigMap, accumConfigMap, envMap,
                 dropped, isDefined>>

\* the defaults are verified but not merged into the accumulator
MergeDefaultsUnmerged ==
  /\ pc = "defaults"
  /\ idx > Len(defaults)
  /\ LET v == verifyFieldsConsistency(GetStructFieldsOfMap(defaultsMap), structFields)
         mm == mergeMaps(accumConfigMap, defaultsMap, structFields)
     IN IF ~resultIsMap /\ v.err # "none"
        THEN /\ pc' = "done"
             /\ err' = Err(v.err, "defaults", 0)
             /\ UNCHANGED <<accumConfigMap, dropped, idx>>
        ELSE /\ accumConfigMap' = accumConfigMap
             /\ dropped' = dropped
             /\ pc' = IF Len(readers) >= 1 THEN "readers" ELSE "env"
             /\ idx' = 1
             /\ err' = err
  /\ UNCHANGED <<callVars, keyVars, fileVars, roundVars, inputs, readCount, result, structFields, absentFields, ConfigMap, Provenances,
                 defaultsMap, envMap, isDefined>>

\* after the loop over defaults: check defaultsMap and merge it into accumConfigMap
MergeDefaults ==
  /\ pc = "defaults"
  /\ idx > Len(defaults)
  /\ LET v == verifyFieldsConsistency(GetStructFieldsOfMap(defaultsMap), structFields)
         mm == mergeMaps(accumConfigMap, defaultsMap, structFields)
     IN IF ~resultIsMap /\ v.err # "none"
        THEN /\ pc' = "done"
             /\ err' = Err(v.err, "defaults", 0)
             /\ UNCHANGED <<accumConfigMap, dropped, idx>>
        ELSE /\ accumConfigMap' = mm.dst
             /\ dropped' = (dropped \/ mm.dropped)
             /\ pc' = IF Len(readers) >= 1 THEN "readers" ELSE "env"
             /\ idx' = 1
             /\ err' = err
  /\ UNCHANGED <<callVars, keyVars, fileVars, roundVars, inputs, readCount, result, structFields, absentFields, ConfigMap, Provenances,
                 defaultsMap, envMap, isDefined>>

\* one iteration of the loop over readers
ReadDocument ==
  /\ pc = "readers"
  /\ idx <= Len(readers)
  /\ LET newConfigMap == readers[idx].map
         v == verifyFieldsConsistency(GetStructFieldsOfMap(newConfigMap), structFields)
         mm == mergeMaps(accumConfigMap, newConfigMap, structFields)
     IN /\ readCount' = readCount + 1
        /\ IF ~resultIsMap /\ v.err # "none"
           THEN /\ pc' = "done"
                /\ err' = Err(v.err, "readers", idx)
                /\ UNCHANGED <<accumConfigMap, Provenances, dropped, idx>>
           ELSE /\ accumConfigMap' = mm.dst
                /\ dropped' = (dropped \/ mm.dropped)
                /\ Provenances' = setProvenances(Provenances, structFields, mm.keysMerged,
                                                 readerName(idx))
                /\ pc' = IF idx < Len(readers) THEN "readers" ELSE "env"
                /\ idx' = IF idx < Len(readers) THEN idx + 1 ELSE 1
                /\ err' = err
  /\ UNCHANGED <<callVars, keyVars, fileVars, roundVars, inputs, result, structFields, absentFields, ConfigMap, defaultsMap,
                 envMap, isDefined>>

\* the environment is looked up before the key is resolved
ApplyEnvOverrideLookupFirst ==
  /\ pc = "env"
  /\ idx <= Len(envOverrides)
  /\ LET eo == envOverrides[idx]
         n == findStructField(structFields, aliasedKeyFromKey(eo.Key))
         notFound == ~resultIsMap /\ n = 0
         key == IF resultIsMap \/ n = 0 THEN eo.Key
                ELSE keyFromAliasedKey(structFields[n].AliasedKey)
         look == LookupEnv(environ, eo.EnvVar)
         conv == IF eo.Conv = "nil" THEN [err |-> FALSE, val |-> look.val]
                 ELSE Atoi(look.val)
         r == setMapByKey(envMap, key, conv.val, structFields)
     IN IF ~look.ok
        THEN /\ idx' = idx + 1
             /\ UNCHANGED <<envMap, Provenances, pc, err>>
        ELSE IF notFound
        THEN /\ pc' = "done"
             /\ err' = Err("UnknownField", "env", idx)
             /\ UNCHANGED <<envMap, Provenances, idx>>
        ELSE IF conv.err
        THEN /\ pc' = "done"
             /\ err' = Err("ConversionError", "env", idx)
             /\ UNCHANGED <<envMap, Provenances, idx>>
        ELSE IF r.err
        THEN /\ pc' = "done"
             /\ err' = Err("StructureConflict", "env", idx)
             /\ envMap' = r.m
             /\ UNCHANGED <<Provenances, idx>>
        ELSE /\ envMap' = r.m
             /\ Provenances' = setProvenance(Provenances, structFields, key,
                                             DollarName(eo.EnvVar))
             /\ idx' = idx + 1
             /\ UNCHANGED <<pc, err>>
  /\ UNCHANGED <<callVars, keyVars, fileVars, roundVars, inputs, readCount, result,
                 structFields, absentFields, ConfigMap, accumConfigMap, defaultsMap,
                 dropped, isDefined>>

\* one iteration of the loop over envOverrides
ApplyEnvOverride ==
  /\ pc = "env"
  /\ idx <= Len(envOverrides)
  /\ LET eo == envOverrides[idx]
         n == findStructField(structFields, aliasedKeyFromKey(eo.Key))
         notFound == ~resultIsMap /\ n = 0
         key == IF resultIsMap \/ n = 0 THEN eo.Key
                ELSE keyFromAliasedKey(structFields[n].AliasedKey)
         look == LookupEnv(environ, eo.EnvVar)
         conv == IF eo.Conv = "nil" THEN [err |-> FALSE, val |-> look.val]
                 ELSE Atoi(look.val)
         r == setMapByKey(envMap, key, conv.val, structFields)
     IN IF notFound
        THEN /\ pc' = "done"
             /\ err' = Err("UnknownField", "env", idx)
             /\ UNCHANGED <<envMap, Provenances, idx>>
        ELSE IF ~look.ok
        THEN /\ idx' = idx + 1
             /\ UNCHANGED <<envMap, Provenances, pc, err>>
        ELSE IF conv.err
        THEN /\ pc' = "done"
             /\ err' = Err("ConversionError", "env", idx)
             /\ UNCHANGED <<envMap, Provenances, idx>>
        ELSE IF r.err
        THEN /\ pc' = "done"
             /\ err' = Err("StructureConflict", "env", idx)
             /\ envMap' = r.m
             /\ UNCHANGED <<Provenances, idx>>
        ELSE /\ envMap' = r.m
             /\ Provenances' = setProvenance(Provenances, structFields, key,
                                             DollarName(eo.EnvVar))
             /\ idx' = idx + 1
             /\ UNCHANGED <<pc, err>>
  /\ UNCHANGED <<callVars, keyVars, fileVars, roundVars, inputs, readCount, result, structFields, absentFields, ConfigMap, accumConfigMap,
                 defaultsMap, dropped, isDefined>>

\* after the loop over envOverrides: check envMap and merge it into accumConfigMap
MergeEnv ==
  /\ pc = "env"
  /\ idx > Len(envOverrides)
  /\ LET v == verifyFieldsConsistency(GetStructFieldsOfMap(envMap), structFields)
         mm == mergeMaps(accumConfigMap, envMap, structFields)
     IN IF ~resultIsMap /\ v.err # "none"
        THEN /\ pc' = "done"
             /\ err' = Err(v.err, "env", 0)
             /\ UNCHANGED <<accumConfigMap, dropped>>
        ELSE /\ accumConfigMap' = mm.dst
             /\ dropped' = (dropped \/ mm.dropped)
             /\ pc' = "finalize"
             /\ err' = err
  /\ UNCHANGED <<callVars, keyVars, fileVars, roundVars, inputs, readCount, result, structFields, absentFields, ConfigMap, Provenances,
                 defaultsMap, envMap, idx, isDefined>>

\* Finalize when result is a map: merge accumConfigMap into *result
FinalizeMap ==
  /\ pc = "finalize"
  /\ resultIsMap
  /\ LET mm == mergeMaps(result, accumConfigMap, structFields)
     IN /\ result' = mm.dst
        /\ ConfigMap' = mm.dst
        /\ dropped' = (dropped \/ mm.dropped)
  /\ pc' = "done"
  /\ UNCHANGED <<callVars, keyVars, fileVars, roundVars, inputs, readCount, structFields, absentFields, Provenances, accumConfigMap,
                 defaultsMap, envMap, idx, err, isDefined>>

\* a field is excused by its parent's optional tag, whether or not the
\* parent is absent
RECURSIVE absentLoopByParentTag(_, _, _)
absentLoopByParentTag(absent, i, st) ==
  IF i > Len(absent) THEN st
  ELSE LET f == absent[i]
           kids == Children(st.structFields, f)
           provs == IF kids = {}
                    THEN setProvenance(st.Provenances, st.structFields,
                                       keyFromAliasedKey(st.structFields[f].AliasedKey),
                                       "[absent]")
                    ELSE st.Provenances
           sf == IF st.structFields[f].Optional /\ kids # {}
                 THEN [j \in 1..Len(st.structFields) |->
                         IF j \in kids
                         THEN [st.structFields[j] EXCEPT !.Optional = TRUE]
                         ELSE st.structFields[j]]
                 ELSE st.structFields
           parentOptional == \E j \in 1..Len(st.structFields) :
                               /\ st.structFields[j].AliasedKey = st.structFields[f].Parent
                               /\ st.structFields[j].Optional
           missing == IF ~st.structFields[f].Optional /\ ~parentOptional
                      THEN Append(st.missingRequiredFields, f)
                      ELSE st.missingRequiredFields
       IN absentLoopByParentTag(absent, i + 1,
                     [structFields |-> sf, Provenances |-> provs,
                      missingRequiredFields |-> missing])

\* the loop stops at the first missing required field
RECURSIVE absentLoopFirstOnly(_, _, _)
absentLoopFirstOnly(absent, i, st) ==
  IF i > Len(absent) \/ Len(st.missingRequiredFields) > 0 THEN st
  ELSE LET f == absent[i]
           kids == Children(st.structFields, f)
           provs == IF kids = {}
                    THEN setProvenance(st.Provenances, st.structFields,
                                       keyFromAliasedKey(st.structFields[f].AliasedKey),
                                       "[absent]")
                    ELSE st.Provenances
           sf == IF st.structFields[f].Optional /\ kids # {}
                 THEN [j \in 1..Len(st.structFields) |->
                         IF j \in kids
                         THEN [st.structFields[j] EXCEPT !.Optional = TRUE]
                         ELSE st.structFields[j]]
                 ELSE st.structFields
           missing == IF ~st.structFields[f].Optional
                      THEN Append(st.missingRequiredFields, f)
                      ELSE st.missingRequiredFields
       IN absentLoopFirstOnly(absent, i + 1,
                     [structFields |-> sf, Provenances |-> provs,
                      missingRequiredFields |-> missing])

\* the loop over md.absentFields: provenance of absent leaves, optional
\* branches excusing their children, and the missing required fields
RECURSIVE absentLoop(_, _, _)
absentLoop(absent, i, st) ==
  IF i > Len(absent) THEN st
  ELSE LET f == absent[i]
           kids == Children(st.structFields, f)
           provs == IF kids = {}
                    THEN setProvenance(st.Provenances, st.structFields,
                                       keyFromAliasedKey(st.structFields[f].AliasedKey),
                                       "[absent]")
                    ELSE st.Provenances
           sf == IF st.structFields[f].Optional /\ kids # {}
                 THEN [j \in 1..Len(st.structFields) |->
                         IF j \in kids
                         THEN [st.structFields[j] EXCEPT !.Optional = TRUE]
                         ELSE st.structFields[j]]
                 ELSE st.structFields
           missing == IF ~st.structFields[f].Optional
                      THEN Append(st.missingRequiredFields, f)
                      ELSE st.missingRequiredFields
       IN absentLoop(absent, i + 1,
                     [structFields |-> sf, Provenances |-> provs,
                      missingRequiredFields |-> missing])

\* the decode into *result is done before the missing required fields are
\* looked at
FinalizeStructDecodeFirst ==
  /\ pc = "finalize"
  /\ ~resultIsMap
  /\ LET v == verifyFieldsConsistency(GetStructFieldsOfMap(accumConfigMap), structFields)
         st == absentLoop(v.absentFields, 1,
                          [structFields |-> structFields, Provenances |-> Provenances,
                           missingRequiredFields |-> <<>>])
         decoded == unmarshalStruct(resultDecl, result, accumConfigMap)
     IN IF v.err # "none"
        THEN /\ err' = Err(v.err, "finalize", 0)
             /\ UNCHANGED <<result, structFields, absentFields, ConfigMap, Provenances>>
        ELSE /\ absentFields' = v.absentFields
             /\ structFields' = st.structFields
             /\ Provenances' = st.Provenances
             /\ IF Len(st.missingRequiredFields) > 0
                THEN /\ err' = [kind |-> "MissingRequired", phase |-> "finalize", index |-> 0,
                                fields |-> [i \in 1..Len(st.missingRequiredFields) |->
                                              keyFromAliasedKey(
                                                structFields[st.missingRequiredFields[i]].AliasedKey)]]
                     /\ result' = decoded
                     /\ UNCHANGED ConfigMap
                ELSE /\ result' = decoded
                     /\ ConfigMap' = marshalStruct(resultDecl, decoded)
                     /\ err' = err
  /\ pc' = "done"
  /\ UNCHANGED <<callVars, keyVars, fileVars, roundVars, inputs, readCount, accumConfigMap, defaultsMap, envMap, idx, dropped, isDefined>>

\* Finalize when result is a struct
FinalizeStruct ==
  /\ pc = "finalize"
  /\ ~resultIsMap
  /\ LET v == verifyFieldsConsistency(GetStructFieldsOfMap(accumConfigMap), structFields)
         st == absentLoop(v.absentFields, 1,
                          [structFields |-> structFields, Provenances |-> Provenances,
                           missingRequiredFields |-> <<>>])
         decoded == unmarshalStruct(resultDecl, result, accumConfigMap)
     IN IF v.err # "none"
        THEN /\ err' = Err(v.err, "finalize", 0)
             /\ UNCHANGED <<result, structFields, absentFields, ConfigMap, Provenances>>
        ELSE /\ absentFields' = v.absentFields
             /\ structFields' = st.structFields
             /\ Provenances' = st.Provenances
             /\ IF Len(st.missingRequiredFields) > 0
                THEN /\ err' = [kind |-> "MissingRequired", phase |-> "finalize", index |-> 0,
                                fields |-> [i \in 1..Len(st.missingRequiredFields) |->
                                              keyFromAliasedKey(
                                                structFields[st.missingRequiredFields[i]].AliasedKey)]]
                     /\ UNCHANGED <<result, ConfigMap>>
                ELSE /\ result' = decoded
                     /\ ConfigMap' = marshalStruct(resultDecl, decoded)
                     /\ err' = err
  /\ pc' = "done"
  /\ UNCHANGED <<callVars, keyVars, fileVars, roundVars, inputs, readCount, accumConfigMap, defaultsMap, envMap, idx, dropped, isDefined>>

\* keys IsDefined is asked about
QueryKeys ==
  IF resultDecl = BareDecl THEN {<<"C">>, <<"nope">>}
  ELSE IF resultDecl = TextDecl THEN {<<"F">>, <<"F", "ExportedString">>, <<"nope">>}
  ELSE {<<"a">>, <<"A">>, <<"eh">>, <<"C">>, <<"sect">>, <<"sect", "x">>, <<"nope">>}

\* md.IsDefined(key...) on the Metadata of a successful Load
IsDefinedCall ==
  /\ pc = "done"
  /\ err = NoErr
  /\ ~isDefined.called
  /\ \E key \in QueryKeys :
       LET r == IsDefined(structFields,
                          [i \in 1..Len(absentFields) |-> structFields[absentFields[i]]],
                          ConfigMap, key)
       IN isDefined' = [called |-> TRUE, key |-> key, defined |-> r.defined, err |-> r.err]
  /\ UNCHANGED <<callVars, keyVars, fileVars, roundVars, inputs, readCount, result, structFields, absentFields, ConfigMap, Provenances,
                 accumConfigMap, defaultsMap, envMap, pc, idx, err, dropped>>

Next ==
  \/ LoadStart
  \/ ApplyDefault
  \/ MergeDefaults
  \/ ReadDocument
  \/ ApplyEnvOverride
  \/ MergeEnv
  \/ FinalizeMap
  \/ FinalizeStruct
  \/ IsDefinedCall

Spec == Init /\ [][Next]_vars

\* ---------------------------------------------------------------- a second Load
\* codec.Marshal of a map followed by codec.Unmarshal into a map: nil entries
\* are not written, integers come back as int64
RECURSIVE tomlRoundTrip(_)
tomlRoundTrip(f) ==
  [k \in {c \in DOMAIN f : f[c].t # "nil"} |->
     IF f[k].t = "map" THEN MapVal(tomlRoundTrip(f[k].m))
     ELSE Scalar(tomlTypeOf(f[k].t), f[k].v)]

\* the leaves of a decoded document
RECURSIVE leavesOf(_, _)
leavesOf(f, prefix) ==
  UNION {IF f[k].t = "map" /\ DOMAIN f[k].m # {}
         THEN leavesOf(f[k].m, Append(prefix, k))
         ELSE {Leaf(Append(prefix, k), f[k])} : k \in DOMAIN f}

\* the caller encodes the snapshot of a successful Load and calls Load again:
\* that document alone, no defaults, no env overrides, a fresh destination
Reload ==
  /\ pc = "done"
  /\ err = NoErr
  /\ round = 1
  /\ ~isDefined.called
  /\ round' = 2
  /\ firstSnapshot' = ConfigMap
  /\ readers' = <<[leaves |-> leavesOf(tomlRoundTrip(ConfigMap), <<>>),
                   map |-> tomlRoundTrip(ConfigMap)]>>
  /\ readerNames' = [isNil |-> TRUE, names |-> <<>>]
  /\ defaults' = <<>>
  /\ envOverrides' = <<>>
  /\ result0' = IF resultIsMap THEN EmptyMap ELSE zeroStruct(resultDecl)
  /\ result' = result0'
  /\ readCount' = 0
  /\ structFields' = <<>>
  /\ absentFields' = <<>>
  /\ ConfigMap' = EmptyMap
  /\ Provenances' = <<>>
  /\ accumConfigMap' = EmptyMap
  /\ defaultsMap' = EmptyMap
  /\ envMap' = EmptyMap
  /\ pc' = "start"
  /\ idx' = 0
  /\ dropped' = FALSE
  /\ UNCHANGED <<callVars, keyVars, fileVars, resultIsMap, resultDecl, resultPtr, environ, err,
                 isDefined>>

NextRoundTrip ==
  \/ Next
  \/ Reload

SpecRoundTrip == Init /\ [][NextRoundTrip]_vars

\* ---------------------------------------------------------------- AliasedKey.Equal
\* no Load call is under way
LoadIdle ==
  /\ resultIsMap = TRUE
  /\ resultDecl = <<>>
  /\ resultPtr = "ptr"
  /\ readers = <<>>
  /\ readerNames = [isNil |-> TRUE, names |-> <<>>]
  /\ defaults = <<>>
  /\ envOverrides = <<>>
  /\ environ = [n \in EnvVars |-> Unset]
  /\ result0 = EmptyMap
  /\ readCount = 0
  /\ result = EmptyMap
  /\ structFields = <<>>
  /\ absentFields = <<>>
  /\ ConfigMap = EmptyMap
  /\ Provenances = <<>>
  /\ accumConfigMap = EmptyMap
  /\ defaultsMap = EmptyMap
  /\ envMap = EmptyMap
  /\ pc = "idle"
  /\ idx = 0
  /\ err = NoErr
  /\ dropped = FALSE
  /\ isDefined = NoCall
  /\ round = 1
  /\ firstSnapshot = EmptyMap

\* the spellings the compared keys are written with
Spellings == {"a", "A", "b"}

\* the other letter case of a spelling
SwapCase(s) ==
  CASE s = "a" -> "A" [] s = "A" -> "a" [] s = "b" -> "B" [] s = "B" -> "b" [] OTHER -> s

\* an AliasedKeyElem: one to n equivalent spellings
KeyElems(n) == UNION {[1..m -> Spellings] : m \in 1..n}

\* the AliasedKeys written with at most n spellings in all
RECURSIVE AliasedKeys(_)
AliasedKeys(n) ==
  {<<>>} \cup
  UNION {{<<e>> \o k : k \in AliasedKeys(n - Len(e))} : e \in KeyElems(n)}

\* how many spellings a key is written with
RECURSIVE spellingCount(_)
spellingCount(k) == IF k = <<>> THEN 0 ELSE Len(Head(k)) + spellingCount(Tail(k))

InitEqual ==
  /\ LoadIdle
  /\ FilesIdle
  /\ CallIdle
  /\ k1 \in AliasedKeys(MaxSpellings)
  /\ k2 \in AliasedKeys(MaxSpellings - spellingCount(k1))
  /\ equalCall = NoEqual
  /\ firstEqual = NoEqual
  /\ caseChanges = 0

\* k1.Equal(k2) and k2.Equal(k1)
EqualCall ==
  /\ ~equalCall.called
  /\ equalCall' = [called |-> TRUE, forward |-> KeyEqual(k1, k2), backward |-> KeyEqual(k2, k1)]
  /\ firstEqual' = IF firstEqual.called THEN firstEqual ELSE equalCall'
  /\ UNCHANGED <<callVars, loadVars, fileVars, k1, k2, caseChanges>>

\* the key with the letter case of spelling j of element i changed
withCaseChanged(k, i, j) == [k EXCEPT ![i][j] = SwapCase(k[i][j])]

\* the caller changes the letter case of one spelling of k1
ChangeCaseLeft ==
  /\ equalCall.called
  /\ caseChanges < MaxCaseChanges
  /\ \E i \in 1..Len(k1) : \E j \in 1..Len(k1[i]) : k1' = withCaseChanged(k1, i, j)
  /\ equalCall' = NoEqual
  /\ caseChanges' = caseChanges + 1
  /\ UNCHANGED <<callVars, loadVars, fileVars, k2, firstEqual>>

\* the caller changes the letter case of one spelling of k2
ChangeCaseRight ==
  /\ equalCall.called
  /\ caseChanges < MaxCaseChanges
  /\ \E i \in 1..Len(k2) : \E j \in 1..Len(k2[i]) : k2' = withCaseChanged(k2, i, j)
  /\ equalCall' = NoEqual
  /\ caseChanges' = caseChanges + 1
  /\ UNCHANGED <<callVars, loadVars, fileVars, k1, firstEqual>>

NextEqual ==
  \/ EqualCall
  \/ ChangeCaseLeft
  \/ ChangeCaseRight

SpecEqual == InitEqual /\ [][NextEqual]_vars

\* ---------------------------------------------------------------- FindFiles
\* the Filename of the i-th location and the j-th directory of a search path
FileName(i) ==
  CASE i = 1 -> "file1" [] i = 2 -> "file2" [] i = 3 -> "file3" [] OTHER -> "file"

DirName(j) ==
  CASE j = 1 -> "testdata" [] j = 2 -> "testdata/subdir1" [] j = 3 -> "testdata/subdir2"
    [] OTHER -> "testdata/nonexistent"

\* filepath.Join(path, loc.Filename), kept as the pair of its parts
Join(path, filename) == <<path, filename>>

\* the i-th FileLocation, with n search paths
FileLocation(i, n) ==
  [Filename |-> FileName(i), SearchPaths |-> [j \in 1..n |-> DirName(j)]]

\* the argument lists of up to m locations
RECURSIVE FileLocationLists(_)
FileLocationLists(m) ==
  IF m = 0 THEN {<<>>}
  ELSE FileLocationLists(m - 1) \cup
       {Append(locs, FileLocation(m, n)) :
          locs \in {l \in FileLocationLists(m - 1) : Len(l) = m - 1},
          n \in 0..MaxSearchPaths}

\* every path FindFiles may try to open
PathsOf(locs) ==
  UNION {{Join(locs[i].SearchPaths[j], locs[i].Filename) :
            j \in 1..Len(locs[i].SearchPaths)} : i \in 1..Len(locs)}

InitFindFiles ==
  /\ LoadIdle
  /\ KeysIdle
  /\ CallIdle
  /\ fileLocations \in FileLocationLists(MaxLocations)
  /\ fileSystem \in [PathsOf(fileLocations) -> {"file", "notexist", "denied"}]
  /\ ffPc = "start"
  /\ ffLoc = 0
  /\ ffPath = 0
  /\ ffReaders = <<>>
  /\ ffClosers = <<>>
  /\ ffReaderNames = <<>>
  /\ ffErr = "nil"
  /\ openFiles = {}

\* len(fileLocations) == 0, before the deferred function is set up
FindFilesStart ==
  /\ ffPc = "start"
  /\ IF Len(fileLocations) = 0
     THEN /\ ffErr' = "no filenames provided"
          /\ ffPc' = "done"
          /\ UNCHANGED <<ffLoc, ffPath>>
     ELSE /\ ffPc' = "open"
          /\ ffLoc' = 1
          /\ ffPath' = 1
          /\ ffErr' = ffErr
  /\ UNCHANGED <<callVars, loadVars, keyVars, fileLocations, fileSystem, ffReaders, ffClosers,
                 ffReaderNames, openFiles>>

\* one osOpen(fpath) in the loop over loc.SearchPaths
OpenFile ==
  /\ ffPc = "open"
  /\ ffLoc <= Len(fileLocations)
  /\ ffPath <= Len(fileLocations[ffLoc].SearchPaths)
  /\ LET loc == fileLocations[ffLoc]
         fpath == Join(loc.SearchPaths[ffPath], loc.Filename)
     IN CASE fileSystem[fpath] = "notexist" ->
               /\ ffPath' = ffPath + 1
               /\ UNCHANGED <<ffPc, ffLoc, ffReaders, ffClosers, ffReaderNames, ffErr,
                              openFiles>>
          [] fileSystem[fpath] = "denied" ->
               \* return nil, nil, nil, err sets the named results
               /\ ffReaders' = <<>>
               /\ ffClosers' = <<>>
               /\ ffReaderNames' = <<>>
               /\ ffErr' = "file open failed"
               /\ ffPc' = "deferred"
               /\ UNCHANGED <<ffLoc, ffPath, openFiles>>
          [] OTHER ->
               /\ openFiles' = openFiles \cup {fpath}
               /\ ffReaders' = Append(ffReaders, fpath)
               /\ ffClosers' = Append(ffClosers, fpath)
               /\ ffReaderNames' = Append(ffReaderNames, fpath)
               /\ ffLoc' = ffLoc + 1
               /\ ffPath' = 1
               /\ UNCHANGED <<ffPc, ffErr>>
  /\ UNCHANGED <<callVars, loadVars, keyVars, fileLocations, fileSystem>>

\* every location is held to be the first
mustExistAlways(i) == TRUE

\* i == 0: the location that must exist (i counts from 1 here)
mustExist(i) == i = 1

\* the file was in none of the search paths
NotFound ==
  /\ ffPc = "open"
  /\ ffLoc <= Len(fileLocations)
  /\ ffPath > Len(fileLocations[ffLoc].SearchPaths)
  /\ IF mustExist(ffLoc)
     THEN /\ ffReaders' = <<>>
          /\ ffClosers' = <<>>
          /\ ffReaderNames' = <<>>
          /\ ffErr' = "failed to find file"
          /\ ffPc' = "deferred"
          /\ UNCHANGED <<ffLoc, ffPath>>
     ELSE /\ ffLoc' = ffLoc + 1
          /\ ffPath' = 1
          /\ UNCHANGED <<ffPc, ffReaders, ffClosers, ffReaderNames, ffErr>>
  /\ UNCHANGED <<callVars, loadVars, keyVars, fileLocations, fileSystem, openFiles>>

\* return readers, closers, readerNames, nil
ReturnFound ==
  /\ ffPc = "open"
  /\ ffLoc > Len(fileLocations)
  /\ ffPc' = "deferred"
  /\ UNCHANGED <<callVars, loadVars, keyVars, fileLocations, fileSystem, ffLoc, ffPath, ffReaders,
                 ffClosers, ffReaderNames, ffErr, openFiles>>

\* the deferred function: in case of error, close the closers
DeferredClose ==
  /\ ffPc = "deferred"
  /\ openFiles' = IF ffErr # "nil"
                  THEN openFiles \ {ffClosers[i] : i \in 1..Len(ffClosers)}
                  ELSE openFiles
  /\ ffPc' = "done"
  /\ UNCHANGED <<callVars, loadVars, keyVars, fileLocations, fileSystem, ffLoc, ffPath, ffReaders,
                 ffClosers, ffReaderNames, ffErr>>

NextFindFiles ==
  \/ FindFilesStart
  \/ OpenFile
  \/ NotFound
  \/ ReturnFound
  \/ DeferredClose

SpecFindFiles == InitFindFiles /\ [][NextFindFiles]_vars

\* ---------------------------------------------------------------- mergeMaps on its own
\* leaves of the maps mergeMaps is called on: a decoded document keeps the
\* spelling of each key, so it can hold two spellings of one key
MergeLeaves ==
  {Leaf(<<"a">>, Scalar("string", 1)),
   Leaf(<<"A">>, Scalar("string", 2)),
   Leaf(<<"S", "x">>, Scalar("int64", 2)),
   Leaf(<<"sect", "x">>, Scalar("int64", 1)),
   Leaf(<<"sect">>, MapVal(EmptyMap)),
   Leaf(<<"M", "k">>, Scalar("int64", 1)),
   Leaf(<<"m">>, MapVal(EmptyMap)),
   Leaf(<<"m", "k", "j">>, Scalar("int64", 2))}

\* m[path[i]]...[path[n]] = val, each key as spelled
RECURSIVE rawPut(_, _, _, _)
rawPut(f, path, i, val) ==
  IF i = Len(path) THEN Put(f, path[i], val)
  ELSE LET child == IF path[i] \in DOMAIN f /\ f[path[i]].t = "map"
                    THEN f[path[i]].m ELSE EmptyMap
       IN Put(f, path[i], MapVal(rawPut(child, path, i + 1, val)))

RECURSIVE rawMap(_)
rawMap(S) ==
  IF S = {} THEN EmptyMap
  ELSE LET l == CHOOSE x \in S : TRUE
       IN rawPut(rawMap(S \ {l}), l.path, 1, l.val)

\* the maps a codec decodes a document to
SrcMaps ==
  {rawMap(S) : S \in {T \in SUBSET MergeLeaves :
                        /\ T # {} /\ Cardinality(T) <= MaxMergeLeaves
                        /\ \A l1, l2 \in T : l1 # l2 =>
                             (~IsPrefix(l1.path, l2.path) /\ ~IsPrefix(l2.path, l1.path))}}

\* the maps an accumulator can be: built by setMapByKey under the schema
DstMaps(schema) ==
  {EmptyMap} \cup
  {LET RECURSIVE build(_)
       build(T) == IF T = {} THEN EmptyMap
                   ELSE LET l == CHOOSE x \in T : TRUE
                        IN setMapByKey(build(T \ {l}), l.path, l.val, schema).m
   IN build(S) : S \in {T \in SUBSET MergeLeaves :
                          /\ T # {} /\ Cardinality(T) <= MaxMergeLeaves
                          /\ \A l1, l2 \in T : l1 # l2 =>
                               ~(\/ HasPrefix(resolveAliasedKey(l1.path, schema),
                                              resolveAliasedKey(l2.path, schema))
                                 \/ HasPrefix(resolveAliasedKey(l2.path, schema),
                                              resolveAliasedKey(l1.path, schema)))}}

\* the struct fields mergeMaps is given: none for a map destination
Schemas == {<<>>, GetStructFieldsOfStruct(ConfigDecl)}

InitMerge ==
  /\ LoadIdle
  /\ KeysIdle
  /\ FilesIdle
  /\ callPc = "mergeMaps"
  /\ \E schema \in Schemas :
       callArgs \in [dst : DstMaps(schema), src : SrcMaps, structFields : {schema}]
  /\ callRet = <<>>

\* keysMerged := decoder.mergeMaps(dst, src, structFields)
MergeMapsCall ==
  /\ callPc = "mergeMaps"
  /\ callRet' = mergeMaps(callArgs.dst, callArgs.src, callArgs.structFields)
  /\ callPc' = "returned"
  /\ UNCHANGED <<loadVars, keyVars, fileVars, callArgs>>

SpecMerge == InitMerge /\ [][MergeMapsCall]_vars

\* ---------------------------------------------------------------- fieldTypesConsistent on its own
\* reflect's Type().String() and Kind().String() of the values fields hold
TypeKinds ==
  {<<"string", "string">>, <<"configloader.stringAlias", "string">>,
   <<"bool", "bool">>, <<"configloader.boolAlias", "bool">>,
   <<"int", "int">>, <<"int64", "int64">>,
   <<"float32", "float32">>, <<"float64", "float64">>,
   <<"*string", "ptr">>, <<"interface {}", "interface">>,
   <<"map[string]interface {}", "map">>, <<"map[string]int", "map">>,
   <<"[]int", "slice">>, <<"[]interface {}", "slice">>,
   <<"time.Time", "struct">>, <<"configloader.simpleStruct", "struct">>}

\* the explicit types a reference field has: none, or "string"
ExpectedTypes == {"", "string"}

InitTypes ==
  /\ LoadIdle
  /\ KeysIdle
  /\ FilesIdle
  /\ callPc = "fieldTypesConsistent"
  /\ \E c, g \in TypeKinds, e \in ExpectedTypes :
       callArgs = [check |-> StructField(<<<<"a">>>>, FALSE, c[1], c[2], "", <<>>),
                   gold |-> StructField(<<<<"A", "a">>>>, FALSE, g[1], g[2], e, <<>>)]
  /\ callRet = <<>>

\* noDeeper, err := d.fieldTypesConsistent(check, gold)
FieldTypesConsistentCall ==
  /\ callPc = "fieldTypesConsistent"
  /\ callRet' = fieldTypesConsistent(callArgs.check, callArgs.gold)
  /\ callPc' = "returned"
  /\ UNCHANGED <<loadVars, keyVars, fileVars, callArgs>>

SpecTypes == InitTypes /\ [][FieldTypesConsistentCall]_vars

\* ---------------------------------------------------------------- verifyFieldsConsistency on its own
\* check is the fields of a decoded document, gold those of the struct it is for
InitVerify ==
  /\ LoadIdle
  /\ KeysIdle
  /\ FilesIdle
  /\ callPc = "verifyFieldsConsistency"
  /\ \E decl \in StructDecls \ {BareDecl} :
       \E d \in Docs(DocLeavesOf(decl)) :
         callArgs = [check |-> GetStructFieldsOfMap(d.map),
                     gold |-> GetStructFieldsOfStruct(decl)]
  /\ callRet = <<>>

\* absentFields, err := decoder.verifyFieldsConsistency(check, gold)
VerifyFieldsConsistencyCall ==
  /\ callPc = "verifyFieldsConsistency"
  /\ callRet' = verifyFieldsConsistency(callArgs.check, callArgs.gold)
  /\ callPc' = "returned"
  /\ UNCHANGED <<loadVars, keyVars, fileVars, callArgs>>

SpecVerify == InitVerify /\ [][VerifyFieldsConsistencyCall]_vars

\* ---------------------------------------------------------------- setMapByKey on its own
\* the keys written: Load passes the keys of defaults, documents and env overrides
SetKeys ==
  {<<"a">>, <<"A">>, <<"eh">>, <<"S", "X">>, <<"sect", "x">>, <<"S", "t", "Y">>,
   <<"m", "K">>, <<"M", "k">>, <<"m", "k", "j">>, <<"nope", "x">>}

InitSetMap ==
  /\ LoadIdle
  /\ KeysIdle
  /\ FilesIdle
  /\ callPc = "setMapByKey"
  /\ \E schema \in Schemas :
       callArgs \in [m : DstMaps(schema), k : SetKeys, v : {Scalar("int64", 7)},
                     structFields : {schema}]
  /\ callRet = <<>>

\* err := setMapByKey(m, k, v, structFields); m is changed in place
SetMapByKeyCall ==
  /\ callPc = "setMapByKey"
  /\ callRet' = setMapByKey(callArgs.m, callArgs.k, callArgs.v, callArgs.structFields)
  /\ callPc' = "returned"
  /\ UNCHANGED <<loadVars, keyVars, fileVars, callArgs>>

SpecSetMap == InitSetMap /\ [][SetMapByKeyCall]_vars

\* ---------------------------------------------------------------- properties
Ok == pc = "done" /\ err = NoErr

\* Load got as far as Finalize
Finalized == pc = "done" /\ (err = NoErr \/ err.phase = "finalize")

Missing == [t |-> "missing", v |-> 0, m |-> <<>>]

\* the value a map holds under a key identity, Missing when it holds none
RECURSIVE lookupAliased(_, _, _)
lookupAliased(f, ak, i) ==
  LET hits == {c \in DOMAIN f : ElemEqual(ak[i], <<c>>)}
      val == f[CHOOSE c \in hits : TRUE]
  IN IF hits = {} THEN Missing
     ELSE IF i = Len(ak) THEN val
     ELSE IF val.t # "map" THEN Missing
     ELSE lookupAliased(val.m, ak, i + 1)

\* the key identity of a key path: every spelling the destination gives its segments
Identity(path) == resolveAliasedKey(path, structFields)

SameIdentity(p, q) == KeyEqual(Identity(p), Identity(q))

FinalValue(path) == lookupAliased(ConfigMap, Identity(path), 1)

\* the source label recorded for a key identity, "" when there is none
ProvOf(path) ==
  LET hits == {i \in 1..Len(Provenances) : KeyEqual(Identity(path), Provenances[i].aliasedKey)}
  IN IF hits = {} THEN "" ELSE Provenances[CHOOSE i \in hits : TRUE].Src

\* the final value is the supplied one (for a struct: converted to the field's
\* type, which for a text-decoded field is the struct UnmarshalText filled)
ValueMatches(final, supplied) ==
  IF resultIsMap THEN final = supplied
  ELSE \/ final.t # "missing" /\ final.v = supplied.v /\ final.m = supplied.m
       \/ /\ final.t = "map" /\ supplied.t = "string"
          /\ "ExportedString" \in DOMAIN final.m
          /\ final.m["ExportedString"] = supplied

ScalarLeaf(l) == l.val.t # "map"

\* the leaves of the d-th document that give a value to the identity of path
DocSupplies(d, path) ==
  {l \in readers[d].leaves : ScalarLeaf(l) /\ SameIdentity(l.path, path)}

DocsSupplying(path) == {d \in 1..Len(readers) : DocSupplies(d, path) # {}}

\* the env overrides for the identity of path whose variable is set
EnvSupplying(path) ==
  {e \in 1..Len(envOverrides) :
     /\ environ[envOverrides[e].EnvVar] # Unset
     /\ SameIdentity(envOverrides[e].Key, path)}

\* some source puts a scalar at a proper prefix of path, replacing the branch
ScalarAbove(path) ==
  LET above(q) == Len(q) < Len(path) /\ HasPrefix(Identity(path), Identity(q))
  IN \/ \E d \in 1..Len(readers) : \E l \in readers[d].leaves :
          ScalarLeaf(l) /\ above(l.path)
     \/ \E d \in 1..Len(defaults) : above(defaults[d].Key)
     \/ \E e \in 1..Len(envOverrides) :
          environ[envOverrides[e].EnvVar] # Unset /\ above(envOverrides[e].Key)

Last(S) == CHOOSE x \in S : \A y \in S : y <= x

EnvLabel == [n \in EnvVars |-> IF n = "ENVA" THEN "$ENVA" ELSE "$ENVB"]

\* what an env override puts into the configuration
EnvValue(eo) ==
  IF eo.Conv = "nil" THEN Scalar("string", environ[eo.EnvVar])
  ELSE Atoi(Scalar("string", environ[eo.EnvVar])).val

\* C1: after a successful Load, a leaf that two documents both supply has the
\* value and the provenance label of the later of the two documents.
C1_MergePrecedence ==
  Ok =>
    \A i, j \in 1..Len(readers) :
      \A li \in readers[i].leaves, lj \in readers[j].leaves :
        ( /\ i < j
          /\ ScalarLeaf(li) /\ ScalarLeaf(lj)
          /\ SameIdentity(li.path, lj.path)
          /\ Last(DocsSupplying(lj.path)) = j
          /\ DocSupplies(j, lj.path) = {lj}
          /\ EnvSupplying(lj.path) = {}
          /\ ~ScalarAbove(lj.path) )
        => /\ ValueMatches(FinalValue(lj.path), lj.val)
           /\ ProvOf(lj.path) = readerName(j)

\* C2: for a struct destination, an env override whose variable is set gives
\* the field its (converted) value and the provenance "$" + variable name,
\* whatever documents and defaults supplied; an override whose variable is
\* unset changes neither the accumulated values nor any provenance.
C2_EnvSetWins ==
  (Ok /\ ~resultIsMap) =>
    \A e \in 1..Len(envOverrides) :
      LET eo == envOverrides[e]
      IN ( /\ findStructField(structFields, aliasedKeyFromKey(eo.Key)) # 0
           /\ environ[eo.EnvVar] # Unset
           /\ Last(EnvSupplying(eo.Key)) = e )
         => /\ ValueMatches(FinalValue(eo.Key), EnvValue(eo))
            /\ ProvOf(eo.Key) = EnvLabel[eo.EnvVar]

C2_EnvUnsetStep ==
  ( /\ pc = "env"
    /\ idx <= Len(envOverrides)
    /\ environ[envOverrides[idx].EnvVar] = Unset )
  => /\ envMap' = envMap
     /\ Provenances' = Provenances
     /\ accumConfigMap' = accumConfigMap
     /\ result' = result

IsBranch(fields, i) ==
  \E j \in 1..Len(fields) :
    j # i /\ HasPrefix(fields[j].AliasedKey, fields[i].AliasedKey)

\* the leaf entries of a map, as key paths
LeafPaths(f) ==
  LET fields == GetStructFieldsOfMap(f)
  IN {keyFromAliasedKey(fields[i].AliasedKey) : i \in {j \in 1..Len(fields) : ~IsBranch(fields, j)}}

\* the final value of the field at key is the one the default supplied: the
\* value itself, or every leaf of it when the default's value is a map
DefaultValueKept(key, val) ==
  IF val.t = "map" /\ val.m # EmptyMap
  THEN \A p \in LeafPaths(val.m) :
         FinalValue(key \o p).v = valueAt(val.m, p, 1).v
  ELSE ValueMatches(FinalValue(key), val)

\* C3: for a struct destination, a reference field with a default and no
\* value at or below it from a later default, a document or a set env
\* override ends with the default value and provenance "[default]", and is
\* never named by the missing-required error.
C3_OptionalViaDefault ==
  (pc = "done" /\ ~resultIsMap) =>
    \A d \in 1..Len(defaults) :
      LET key == defaults[d].Key
          n == findStructField(structFields, aliasedKeyFromKey(key))
          below(k) == HasPrefix(Identity(k), Identity(key))
      IN ( /\ n # 0
           /\ \A d2 \in (d + 1)..Len(defaults) : ~below(defaults[d2].Key)
           /\ \A r \in 1..Len(readers) : \A l \in readers[r].leaves : ~below(l.path)
           /\ \A e \in 1..Len(envOverrides) :
                environ[envOverrides[e].EnvVar] # Unset => ~below(envOverrides[e].Key) )
         => /\ Ok => /\ DefaultValueKept(key, defaults[d].Val)
                     /\ ProvOf(key) = "[default]"
            /\ err.kind = "MissingRequired" =>
                 \A i \in 1..Len(err.fields) : ~SameIdentity(err.fields[i], key)

\* field A, which has no optional tag, is filled by its default alone
W3_DefaultFillsRequiredField ==
  /\ Ok /\ ~resultIsMap
  /\ \E d \in 1..Len(defaults) :
       /\ SameIdentity(defaults[d].Key, <<"A">>)
       /\ DocsSupplying(<<"A">>) = {}
       /\ ProvOf(<<"A">>) = "[default]"
       /\ FinalValue(<<"A">>).v = defaults[d].Val.v

\* C4: a default is the final value only when no document and no set env
\* override supplies the same key; otherwise value and provenance are those
\* of the document or env override.
C4_DefaultsLowestPrecedence ==
  Ok =>
    \A d \in 1..Len(defaults) :
      LET key == defaults[d].Key
          docs == DocsSupplying(key)
          envs == EnvSupplying(key)
      IN ScalarAbove(key) \/
         /\ ProvOf(key) = "[default]" => (docs = {} /\ envs = {})
         /\ envs # {} =>
              /\ ProvOf(key) = EnvLabel[envOverrides[Last(envs)].EnvVar]
              /\ ValueMatches(FinalValue(key), EnvValue(envOverrides[Last(envs)]))
         /\ (envs = {} /\ docs # {}) =>
              /\ ProvOf(key) = readerName(Last(docs))
              /\ \A l \in DocSupplies(Last(docs), key) :
                   DocSupplies(Last(docs), key) = {l} => ValueMatches(FinalValue(key), l.val)

\* the reference schema of the struct destination, as extracted before any default
RefConfig == GetStructFieldsOfStruct(ConfigDecl)
RefBare == GetStructFieldsOfStruct(BareDecl)
RefText == GetStructFieldsOfStruct(TextDecl)

Ref ==
  CASE resultDecl = ConfigDecl -> RefConfig
    [] resultDecl = BareDecl -> RefBare
    [] resultDecl = TextDecl -> RefText
    [] OTHER -> <<>>

\* every key path of the d-th document: its leaves and the tables above them
DocKeyPaths(d) ==
  UNION {{SubSeq(l.path, 1, n) : n \in 1..Len(l.path)} : l \in readers[d].leaves}

Vestigial(path) == findStructField(Ref, aliasedKeyFromKey(path)) = 0

\* path lies beneath a reference field whose content is free-form: a map or
\* slice field, or a field decoded through an expected type
BelowFreeForm(path) ==
  \E n \in 1..(Len(path) - 1) :
    LET g == findStructField(Ref, aliasedKeyFromKey(SubSeq(path, 1, n)))
    IN g # 0 /\ (Ref[g].Kind \in {"map", "slice"} \/ Ref[g].ExpectedType # "")

\* Load failed no later than at document d, and if at d then in its verification
FailsByDocument(d) ==
  /\ err # NoErr
  /\ err.phase \in {"start", "defaults", "readers"}
  /\ err.phase = "readers" =>
       /\ err.index <= d
       /\ err.index = d => err.kind \in {"UnknownField", "TypeMismatch"}

\* C5 (as stated): for a struct destination, a document with a key, at any
\* depth, that matches no reference field makes Load fail, by the
\* unknown-field check of that document unless an earlier check failed first.
C5_VestigialDetection ==
  (pc = "done" /\ ~resultIsMap) =>
    \A d \in 1..Len(readers) :
      (\E p \in DocKeyPaths(d) : Vestigial(p)) => FailsByDocument(d)

\* C5 (amended): the same for every such key that does not lie beneath a
\* free-form field (a map or slice field, or a field with an expected type).
C5_VestigialDetectionAmended ==
  (pc = "done" /\ ~resultIsMap) =>
    \A d \in 1..Len(readers) :
      (\E p \in DocKeyPaths(d) : Vestigial(p) /\ ~BelowFreeForm(p)) => FailsByDocument(d)

\* a key two tables deep that matches no field is reported as unknown
W5_NestedVestigialKey ==
  /\ pc = "done" /\ ~resultIsMap
  /\ err.kind = "UnknownField" /\ err.phase = "readers"
  /\ \E p \in DocKeyPaths(err.index) :
       Len(p) = 3 /\ Vestigial(p) /\ ~Vestigial(SubSeq(p, 1, 2))

\* the reference field with index i has no value in the accumulator: none under
\* its own key, and none through a free-form field above it that has a value
AbsentInAccum(i) ==
  /\ lookupAliased(accumConfigMap, Ref[i].AliasedKey, 1) = Missing
  /\ ~\E j \in 1..Len(Ref) :
        /\ j # i /\ HasPrefix(Ref[i].AliasedKey, Ref[j].AliasedKey)
        /\ Ref[j].Kind = "map" \/ Ref[j].ExpectedType # ""
        /\ lookupAliased(accumConfigMap, Ref[j].AliasedKey, 1) # Missing

\* optional by tag or because a default names the field
OptionalField(i) ==
  \/ Ref[i].Optional
  \/ \E d \in 1..Len(defaults) : KeyEqual(aliasedKeyFromKey(defaults[d].Key), Ref[i].AliasedKey)

\* the field, or a branch above it, is absent and optional
Excused(i) ==
  \E j \in 1..Len(Ref) :
    /\ HasPrefix(Ref[i].AliasedKey, Ref[j].AliasedKey)
    /\ AbsentInAccum(j) /\ OptionalField(j)

MissingRequired == {i \in 1..Len(Ref) : AbsentInAccum(i) /\ ~Excused(i)}

Reported(i) ==
  \E k \in 1..Len(err.fields) : KeyEqual(aliasedKeyFromKey(err.fields[k]), Ref[i].AliasedKey)

\* C6: for a struct destination that reaches Finalize, the missing-required
\* error is raised exactly when some reference field is absent and not
\* optional, and it then names each such field once and no other field.
C6_MissingRequiredReportedTogether ==
  (Finalized /\ ~resultIsMap) =>
    IF MissingRequired = {} THEN err = NoErr
    ELSE /\ err.kind = "MissingRequired"
         /\ Len(err.fields) = Cardinality(MissingRequired)
         /\ \A i \in 1..Len(Ref) : Reported(i) <=> i \in MissingRequired

\* several required fields are missing and all are named
W6_SeveralFieldsMissing ==
  /\ Finalized /\ ~resultIsMap
  /\ err.kind = "MissingRequired"
  /\ Len(err.fields) >= 2
  /\ Cardinality(MissingRequired) = Len(err.fields)

\* C7: when an optional branch field is absent from the merged input, no
\* field beneath it is named by the missing-required error and every leaf
\* beneath it has provenance "[absent]".
C7_AbsencePropagation ==
  (Finalized /\ ~resultIsMap) =>
    \A g \in 1..Len(Ref) :
      (IsBranch(Ref, g) /\ Ref[g].Optional /\ AbsentInAccum(g)) =>
        \A f \in 1..Len(Ref) :
          (f # g /\ HasPrefix(Ref[f].AliasedKey, Ref[g].AliasedKey)) =>
            /\ ~Reported(f)
            /\ ~IsBranch(Ref, f) =>
                 ProvOf(keyFromAliasedKey(Ref[f].AliasedKey)) = "[absent]"

\* section S is absent, Load succeeds, and S.T.Y two levels down is marked absent
W7_AbsentOptionalSection ==
  /\ Ok /\ ~resultIsMap
  /\ \E g \in 1..Len(Ref) :
       /\ IsBranch(Ref, g) /\ Ref[g].Optional /\ AbsentInAccum(g)
       /\ \E f \in 1..Len(Ref) :
            /\ Len(Ref[f].AliasedKey) = 3
            /\ HasPrefix(Ref[f].AliasedKey, Ref[g].AliasedKey)
            /\ ~Ref[f].Optional
            /\ ProvOf(keyFromAliasedKey(Ref[f].AliasedKey)) = "[absent]"

\* C8: Load never returns success after a merge met a structure conflict
\* (a key to descend through that holds a non-map, non-nil value).
C8_StructureConflictFatal == (pc = "done" /\ dropped) => err # NoErr

FoldPrefix(p, q) == HasPrefix(aliasedKeyFromKey(q), aliasedKeyFromKey(p))

\* a source overwrites the entry of the destination map at path p: it writes
\* p or a key above it, or it writes below p where p held nil or a map
Overwritten(p) ==
  \E q \in LeafPaths(accumConfigMap) :
    \/ FoldPrefix(q, p)
    \/ FoldPrefix(p, q) /\ valueAt(result0, p, 1).t \in {"nil", "map"}

\* C9: for a map destination no unknown-field, type or missing-required
\* error occurs, and after a successful Load every entry the map held before
\* that no source overwrites has kept its value, and ConfigMap equals the map.
C9_MapDestinationFrame ==
  (pc = "done" /\ resultIsMap) =>
    /\ err.kind \notin {"UnknownField", "TypeMismatch", "MissingRequired"}
    /\ err = NoErr =>
         /\ ConfigMap = result
         /\ \A p \in LeafPaths(result0) :
              ~Overwritten(p) =>
                 /\ definedInMap(result, p, 1)
                 /\ valueAt(result, p, 1) = valueAt(result0, p, 1)

\* a pre-populated map: one entry is replaced, its sibling and another entry stay
W9_PrePopulatedMapMerged ==
  /\ Ok /\ resultIsMap
  /\ result # result0
  /\ \E p, q \in LeafPaths(result0) :
       /\ Len(p) = 2 /\ Len(q) = 2 /\ p[1] = q[1]
       /\ Overwritten(p) /\ valueAt(result, p, 1) # valueAt(result0, p, 1)
       /\ ~Overwritten(q) /\ valueAt(result, q, 1) = valueAt(result0, q, 1)

\* C10: after a successful Load into a map, IsDefined returns no error, and
\* returns true exactly when the exact key path exists in the resulting map.
C10_IsDefinedOnMap ==
  (isDefined.called /\ resultIsMap) =>
    /\ ~isDefined.err
    /\ isDefined.defined <=> definedInMap(ConfigMap, isDefined.key, 1)

\* the reference fields a key matches, under any spelling and letter case
RefHits(key) ==
  {i \in 1..Len(Ref) : KeyEqual(Ref[i].AliasedKey, aliasedKeyFromKey(key))}

\* the reference fields of the final absent list
AbsentSet == {absentFields[i] : i \in 1..Len(absentFields)}

\* C11: after a successful Load into a struct, IsDefined on a key that matches a
\* reference field (name or alias, any letter case) returns (true, nil) when the
\* field is not in the final absent list and (false, nil) when it is; on a key
\* that matches no reference field (an ignored field included) it returns an error.
C11_IsDefinedOnStruct ==
  (isDefined.called /\ ~resultIsMap) =>
    IF RefHits(isDefined.key) = {}
    THEN isDefined.err
    ELSE /\ ~isDefined.err
         /\ isDefined.defined <=> (RefHits(isDefined.key) \cap AbsentSet = {})

\* the arguments Load rejects
InvalidArguments ==
  \/ resultPtr \in {"value", "nilptr"}
  \/ ~readerNames.isNil /\ Len(readerNames.names) # Len(readers)

\* C12: when the destination is not a pointer or is a nil pointer, or readerNames
\* is non-nil with a length other than the number of readers, Load returns an
\* error, reads no reader and leaves the destination as it was.
C12_ArgumentValidation ==
  InvalidArguments =>
    /\ readCount = 0
    /\ result = result0
    /\ pc # "start" => (pc = "done" /\ err.kind = "InvalidArgument")

\* Load has rejected an empty, non-nil slice of names given with one reader
W12_NamesOfWrongLength ==
  /\ pc = "done" /\ err.kind = "InvalidArgument"
  /\ resultPtr = "ptr"
  /\ Len(readers) = 1 /\ ~readerNames.isNil /\ Len(readerNames.names) = 0

\* field j lies beneath field i, following the Parent links
RECURSIVE IsDescendant(_, _, _)
IsDescendant(fields, j, i) ==
  /\ fields[j].Parent # <<>>
  /\ \/ fields[j].Parent = fields[i].AliasedKey
     \/ \E k \in 1..Len(fields) :
          fields[k].AliasedKey = fields[j].Parent /\ IsDescendant(fields, k, i)

Descendants(fields, i) == {j \in 1..Len(fields) : j # i /\ IsDescendant(fields, j, i)}

\* every field is followed at once by all the fields beneath it, and by them only
BranchBeforeLeaf(fields) ==
  \A i \in 1..Len(fields) :
    Descendants(fields, i) = (i + 1)..(i + Cardinality(Descendants(fields, i)))

\* the sequences GetStructFields has returned so far in this Load
ExtractedFields ==
  (IF pc = "start" THEN {} ELSE {structFields})
  \cup {GetStructFieldsOfMap(readers[d].map) : d \in 1..readCount}
  \cup (IF pc = "done" /\ ~resultIsMap /\ readCount = Len(readers)
                      /\ err.phase \in {"", "finalize"}
        THEN {GetStructFieldsOfMap(accumConfigMap)} ELSE {})

\* C13: in every sequence GetStructFields returns, a descriptor comes before
\* each of its descendants, and its descendants are exactly the entries that
\* follow it without a gap.
C13_BranchBeforeLeaf == \A fields \in ExtractedFields : BranchBeforeLeaf(fields)

\* the schema of a struct with a section two levels deep, followed by a sibling
W13_NestedSectionThenSibling ==
  /\ pc # "start" /\ ~resultIsMap
  /\ \E i \in 1..Len(structFields) :
       /\ Cardinality(Descendants(structFields, i)) >= 3
       /\ \E j \in Descendants(structFields, i) : Descendants(structFields, j) # {}
       /\ i + Cardinality(Descendants(structFields, i)) < Len(structFields)

\* the declaration of the struct field a reference field was made from
RECURSIVE DeclAt(_, _, _)
DeclAt(decls, ak, i) ==
  LET d == DeclOf(decls, ak[i][1])
  IN IF i = Len(ak) THEN d ELSE DeclAt(d.Fields, ak, i + 1)

\* the reference fields whose type implements encoding.TextUnmarshaler
TextDecoded ==
  {i \in 1..Len(structFields) : DeclAt(resultDecl, structFields[i].AliasedKey, 1).TextUnmarshaler}

\* C14 (as stated): a field whose type implements encoding.TextUnmarshaler has
\* expected type "string" and nothing beneath it in the schema.
C14_OpaqueTextFields ==
  (pc # "start" /\ ~resultIsMap) =>
    \A i \in TextDecoded :
      /\ structFields[i].ExpectedType = "string"
      /\ Descendants(structFields, i) = {}

\* C14 (amended): such a field has expected type "string"; when it is of struct
\* kind the schema still holds, right beneath it, one descriptor for each
\* exported, not ignored field of its type.
C14_TextFieldsExpectString ==
  (pc # "start" /\ ~resultIsMap) =>
    \A i \in TextDecoded :
      LET d == DeclAt(resultDecl, structFields[i].AliasedKey, 1)
          inner == {n \in 1..Len(d.Fields) : d.Fields[n].Exported /\ ~d.Fields[n].Ignored}
      IN /\ structFields[i].ExpectedType = "string"
         /\ d.Kind = "struct" =>
              {structFields[j].AliasedKey :
                 j \in {k \in 1..Len(structFields) :
                          structFields[k].Parent = structFields[i].AliasedKey}}
                = {Append(structFields[i].AliasedKey, <<d.Fields[n].Name>>) : n \in inner}

\* the schema of a struct with a text-decoded struct field has been extracted
W14_TextDecodedStructField ==
  /\ pc # "start" /\ ~resultIsMap
  /\ \E i \in TextDecoded :
       structFields[i].Kind = "struct" /\ Cardinality(Descendants(structFields, i)) = 2

\* at every position some spelling of one key is, letter case aside, a spelling of the other
SpellingsMeet(a, b) ==
  /\ Len(a) = Len(b)
  /\ \A i \in 1..Len(a) :
       \E x \in 1..Len(a[i]), y \in 1..Len(b[i]) :
         a[i][x] \in {b[i][y], SwapCase(b[i][y])}

\* C15: k1.Equal(k2) equals k2.Equal(k1); it is false when the lengths differ and
\* otherwise true exactly when at every position some spelling of k1 equals some
\* spelling of k2 ignoring letter case; it is what it was before the letter case
\* of a spelling was changed.
C15_EqualSymmetricFolded ==
  equalCall.called =>
    /\ equalCall.forward = equalCall.backward
    /\ equalCall.forward = SpellingsMeet(k1, k2)
    /\ equalCall.forward = firstEqual.forward

\* keys match only through an alias written in another letter case, and still
\* match after a spelling changed its case
W15_AliasMatchesAfterCaseChange ==
  /\ equalCall.called /\ equalCall.forward
  /\ caseChanges = 1
  /\ Len(k1) >= 1
  /\ \E i \in 1..Len(k1) :
       /\ Len(k1[i]) = 2
       /\ \A x \in 1..Len(k1[i]), y \in 1..Len(k2[i]) : k1[i][x] # k2[i][y]

\* no two provenance entries are for the same key identity
ProvenancesUnique ==
  \A i, j \in 1..Len(Provenances) :
    i # j => ~KeyEqual(Provenances[i].aliasedKey, Provenances[j].aliasedKey)

\* a step keeps every entry in its place and changes at most its source label
ProvenancesKept ==
  /\ Len(Provenances') >= Len(Provenances)
  /\ \A i \in 1..Len(Provenances) :
       /\ Provenances'[i].aliasedKey = Provenances[i].aliasedKey
       /\ Provenances'[i].Key = Provenances[i].Key

\* C16: at every point of a Load call and in the Metadata returned, no two
\* provenance entries have aliased keys that are Equal; recording a source for
\* a key that matches an entry changes that entry's label only and adds none.
C16_ProvenanceUnique == []ProvenancesUnique /\ [][ProvenancesKept]_vars

\* a later document names, under another spelling, a field the first document
\* supplied: the one entry now carries the later document's label
W16_RelabelledUnderAlias ==
  /\ Ok /\ Len(readers) = 2
  /\ \E l1 \in readers[1].leaves, l2 \in readers[2].leaves :
       /\ l1.path # l2.path
       /\ SameIdentity(l1.path, l2.path)
       /\ ProvOf(l1.path) = "[1]"

\* the first search path of location i where osOpen finds something, 0 when none
FirstExisting(i) ==
  LET loc == fileLocations[i]
      hits == {j \in 1..Len(loc.SearchPaths) :
                 fileSystem[<<loc.SearchPaths[j], loc.Filename>>] # "notexist"}
  IN IF hits = {} THEN 0 ELSE CHOOSE j \in hits : \A h \in hits : j <= h

\* the path of location i at its first existing search path
FoundPath(i) ==
  <<fileLocations[i].SearchPaths[FirstExisting(i)], fileLocations[i].Filename>>

\* the locations found, in input order
RECURSIVE FoundInOrder(_)
FoundInOrder(i) ==
  IF i > Len(fileLocations) THEN <<>>
  ELSE (IF FirstExisting(i) = 0 THEN <<>> ELSE <<FoundPath(i)>>) \o FoundInOrder(i + 1)

\* some file that exists cannot be opened
OpenDenied ==
  \E i \in 1..Len(fileLocations) :
    FirstExisting(i) # 0 /\ fileSystem[FoundPath(i)] = "denied"

\* C17: FindFiles opens, for each location in input order, the file in the first
\* search path where it exists; a later location found nowhere is skipped; an
\* empty list or a first location found nowhere is an error; on success readers,
\* closers and reader names have one length and follow the order of the
\* locations found.
C17_SearchOrder ==
  ffPc = "done" =>
    IF Len(fileLocations) = 0 \/ FirstExisting(1) = 0 \/ OpenDenied
    THEN ffErr # "nil"
    ELSE /\ ffErr = "nil"
         /\ ffReaders = FoundInOrder(1)
         /\ ffClosers = FoundInOrder(1)
         /\ ffReaderNames = FoundInOrder(1)

\* the first file is found in its second search path and the second file nowhere
W17_SecondPathAndSkippedOverride ==
  /\ ffPc = "done" /\ ffErr = "nil"
  /\ Len(fileLocations) = 2
  /\ FirstExisting(1) = 2
  /\ Len(fileLocations[2].SearchPaths) = 2 /\ FirstExisting(2) = 0
  /\ Len(ffReaders) = 1

\* C18: when FindFiles returns an error, every file it opened in the call has
\* been closed.
C18_FilesReleasedOnFailure ==
  (ffPc = "done" /\ ffErr # "nil") => openFiles = {}

RECURSIVE KeptByFormat(_)
KeptByFormat(f) ==
  \A k \in DOMAIN f :
    /\ f[k].t \notin {"nil", "int"}
    /\ f[k].t = "map" => KeptByFormat(f[k].m)

\* some reference field is decoded from text by its own UnmarshalText
HasTextDecodedField ==
  \E i \in 1..Len(Ref) : DeclAt(resultDecl, Ref[i].AliasedKey, 1).TextUnmarshaler

PhaseRank(p) ==
  CASE p = "start" -> 0 [] p = "defaults" -> 1 [] p = "readers" -> 2 [] p = "env" -> 3
    [] p = "finalize" -> 4 [] OTHER -> 5

\* inputs a struct destination does not accept: a default or an env override
\* for a key that matches no field, an env value its converter rejects, a
\* document with a key that matches no field
InvalidDefault(i) ==
  ~resultIsMap /\ findStructField(Ref, aliasedKeyFromKey(defaults[i].Key)) = 0

InvalidDocument(d) ==
  ~resultIsMap /\ \E p \in DocKeyPaths(d) : Vestigial(p) /\ ~BelowFreeForm(p)

InvalidEnvOverride(e) ==
  /\ ~resultIsMap
  /\ \/ findStructField(Ref, aliasedKeyFromKey(envOverrides[e].Key)) = 0
     \/ /\ environ[envOverrides[e].EnvVar] = EnvWord
        /\ envOverrides[e].Conv = "Atoi"

\* Load failed in the given phase no later than at input i, or in an earlier phase
FailedBy(phase, i) ==
  /\ err # NoErr
  /\ \/ PhaseRank(err.phase) < PhaseRank(phase)
     \/ err.phase = phase /\ err.index >= 1 /\ err.index <= i

\* the error is that of the earliest invalid input, and the readers consumed
\* are those up to the failing document
FirstError ==
  (pc = "done" /\ ~InvalidArguments) =>
    /\ \A i \in 1..Len(defaults) : InvalidDefault(i) => FailedBy("defaults", i)
    /\ \A d \in 1..Len(readers) : InvalidDocument(d) => FailedBy("readers", d)
    /\ \A e \in 1..Len(envOverrides) : InvalidEnvOverride(e) => FailedBy("env", e)
    /\ readCount = (IF err = NoErr \/ PhaseRank(err.phase) > 2 THEN Len(readers)
                    ELSE IF err.phase = "readers" THEN err.index
                    ELSE 0)
    /\ (err # NoErr /\ PhaseRank(err.phase) < 3) => envMap = EmptyMap

\* a step moves on to a later phase or to the next input of the phase; readers
\* are consumed one at a time, in list order, in the readers phase
PhaseStep ==
  /\ pc' # pc => PhaseRank(pc') > PhaseRank(pc)
  /\ (pc' = pc /\ idx' # idx) => idx' = idx + 1
  /\ readCount' # readCount =>
       (pc = "readers" /\ idx = readCount + 1 /\ readCount' = readCount + 1)
  /\ defaultsMap' # defaultsMap => pc = "defaults"
  /\ envMap' # envMap => pc = "env"

\* C20: Load works through defaults, then documents in list order, then env
\* overrides, then final verification; when several inputs are invalid the
\* error is that of the earliest phase, and among documents of the earliest
\* invalid one, and no document after the failing one is read.
C20_PhaseOrderFirstError == []FirstError /\ [][PhaseStep]_vars

\* both documents hold an unknown key: the first is reported, the second not read
W20_SecondInvalidDocumentUnread ==
  /\ pc = "done" /\ ~InvalidArguments
  /\ Len(readers) = 2
  /\ InvalidDocument(1) /\ InvalidDocument(2)
  /\ err.phase = "readers" /\ err.index = 1
  /\ readCount = 1

\* the leaves of the source map of a mergeMaps call: its fields without children
SrcFields == GetStructFieldsOfMap(callArgs.src)

SrcKey(i) == [n \in 1..Len(SrcFields[i].AliasedKey) |-> SrcFields[i].AliasedKey[n][1]]

SrcLeaves == {i \in 1..Len(SrcFields) : ~IsBranch(SrcFields, i)}

\* the key identity mergeMaps writes a source key under
MergeIdentity(key) == resolveAliasedKey(key, callArgs.structFields)

Merged(i) == \E n \in 1..Len(callRet.keysMerged) : callRet.keysMerged[n] = SrcKey(i)

\* C21: mergeMaps returns exactly the leaves it wrote: a source leaf's key is in
\* the returned list if and only if dst holds that leaf's value at the key's
\* identity when the call returns.
C21_MergedKeysWritten ==
  callPc = "returned" =>
    \A i \in SrcLeaves :
      LET before == lookupAliased(callArgs.dst, MergeIdentity(SrcKey(i)), 1)
          after == lookupAliased(callRet.dst, MergeIdentity(SrcKey(i)), 1)
      IN IF Merged(i) THEN after = valueAt(callArgs.src, SrcKey(i), 1)
         ELSE after = before

\* C22: an empty map of the source is written into dst only if dst holds no
\* entry at that key identity at the moment of the write: none before the call
\* and none written earlier in the call under another spelling.
C22_EmptyBranchNeverClobbers ==
  callPc = "returned" =>
    \A i \in SrcLeaves :
      (SrcFields[i].Kind = "map" /\ Merged(i)) =>
        /\ lookupAliased(callArgs.dst, MergeIdentity(SrcKey(i)), 1) = Missing
        /\ \A j \in 1..(i - 1) :
             Merged(j) => ~HasPrefix(MergeIdentity(SrcKey(j)), MergeIdentity(SrcKey(i)))

\* C23: a candidate whose type equals the reference's type, or whose kind equals
\* the reference's kind, is compatible with a reference that has no expectedType.
C23_TypeOrKindMatch ==
  (callPc = "returned" /\ callArgs.gold.ExpectedType = "") =>
    ((callArgs.check.Type = callArgs.gold.Type \/ callArgs.check.Kind = callArgs.gold.Kind)
       => ~callRet.err)

\* C23 as the code has it: the candidate's type equals the reference's type or
\* the reference's kind.
C23_TypeMatchesTypeOrKind ==
  (callPc = "returned" /\ callArgs.gold.ExpectedType = "") =>
    ((callArgs.check.Type = callArgs.gold.Type \/ callArgs.check.Type = callArgs.gold.Kind)
       => ~callRet.err)

\* a plain bool from a document against a field of a named bool type
W23_PlainValueForNamedType ==
  /\ callPc = "returned"
  /\ callArgs.gold.ExpectedType = ""
  /\ callArgs.check.Type = "bool"
  /\ callArgs.gold.Type = "configloader.boolAlias"
  /\ ~callRet.err

\* the reference field a candidate matches (0 when none)
GoldOf(i) == findStructField(callArgs.gold, callArgs.check[i].AliasedKey)

\* candidate i is processed: no processed candidate before it whose key is a
\* prefix of its key matched a reference field that has an expectedType or is
\* of kind map or slice
RECURSIVE Processed(_)
StopAt(j) ==
  /\ Processed(j)
  /\ GoldOf(j) # 0
  /\ LET g == callArgs.gold[GoldOf(j)]
     IN g.ExpectedType # "" \/ g.Kind = "map" \/ g.Kind = "slice"

Processed(i) ==
  \A j \in 1..(i - 1) :
    HasPrefix(callArgs.check[i].AliasedKey, callArgs.check[j].AliasedKey) => ~StopAt(j)

UnderStop(ak) == \E j \in 1..Len(callArgs.check) : StopAt(j) /\ HasPrefix(ak, callArgs.check[j].AliasedKey)

MatchedGold(g) == \E i \in 1..Len(callArgs.check) : Processed(i) /\ GoldOf(i) = g

MatchedLen ==
  LET found == {n \in 1..Len(callArgs.k) :
                  findStructField(callArgs.structFields,
                                  aliasedKeyFromKey(SubSeq(callArgs.k, 1, n))) # 0}
  IN IF found = {} THEN 0 ELSE CHOOSE n \in found : \A x \in found : x <= n

\* the spellings of segment i: those of the matched reference field, else the source's
SegmentSpellings(i) ==
  IF i <= MatchedLen
  THEN callArgs.structFields[
         findStructField(callArgs.structFields,
                         aliasedKeyFromKey(SubSeq(callArgs.k, 1, MatchedLen)))].AliasedKey[i]
  ELSE <<callArgs.k[i]>>

\* preferred spelling for the matched segments, the source's for the others
NormalizedKey ==
  [i \in 1..Len(callArgs.k) |-> SegmentSpellings(i)[Len(SegmentSpellings(i))]]

\* the same, except that a segment the map already holds a key for, under any
\* spelling of it and ignoring letter case, is written under that key
RECURSIVE WrittenKey(_, _)
WrittenKey(f, i) ==
  IF i > Len(callArgs.k) THEN <<>>
  ELSE LET present == {c \in DOMAIN f : ElemEqual(SegmentSpellings(i), <<c>>)}
           seg == IF present # {} THEN CHOOSE c \in present : TRUE ELSE NormalizedKey[i]
           below == IF seg \in DOMAIN f /\ f[seg].t = "map" THEN f[seg].m ELSE EmptyMap
       IN <<seg>> \o WrittenKey(below, i + 1)

\* C25: a leaf written by setMapByKey is stored under the preferred spelling for
\* the segments of the longest prefix matching a reference field and under the
\* source spelling for the rest.
C25_KeyNormalization ==
  (callPc = "returned" /\ ~callRet.err) =>
    valueAt(callRet.m, NormalizedKey, 1) = callArgs.v

\* C25 with the keys the map already holds: as above, except that a segment
\* which the map already holds under another spelling is written under the
\* key that is there.
C25_KeyNormalizationOfNewKeys ==
  (callPc = "returned" /\ ~callRet.err) =>
    /\ valueAt(callRet.m, WrittenKey(callArgs.m, 1), 1) = callArgs.v
    /\ (\A i \in 1..Len(callArgs.k) :
          lookupAliased(callArgs.m, [n \in 1..i |-> SegmentSpellings(n)], 1) = Missing)
         => WrittenKey(callArgs.m, 1) = NormalizedKey

\* [m k j] written into a map without that section: stored as M.k.j
W25_PrefixMatchedRestKept ==
  /\ callPc = "returned" /\ ~callRet.err
  /\ callArgs.k = <<"m", "k", "j">>
  /\ MatchedLen = 1
  /\ lookupAliased(callArgs.m, <<<<"M">>>>, 1) = Missing
  /\ valueAt(callRet.m, <<"M", "k", "j">>, 1) = callArgs.v

\* the defaults phase is over and nothing else has been read yet
AfterDefaults ==
  \/ pc = "readers" /\ idx = 1
  \/ pc = "env" /\ idx = 1 /\ Len(readers) = 0

\* C26: after the defaults phase every leaf the defaults put into the
\* accumulator has a provenance entry "[default]", the leaves inside a default
\* whose value is a map included, and no "[default]" entry is for a branch.
C26_DefaultsProvenancePerLeaf ==
  AfterDefaults =>
    /\ \A p \in LeafPaths(accumConfigMap) : ProvOf(p) = "[default]"
    /\ \A n \in 1..Len(Provenances) :
         Provenances[n].Src = "[default]" =>
           LET val == lookupAliased(accumConfigMap, Provenances[n].aliasedKey, 1)
           IN ~(val.t = "map" /\ val.m # EmptyMap)

\* the key matches no field of the destination struct
UnknownKey(key) == findStructField(Ref, aliasedKeyFromKey(key)) = 0

\* C27: into a struct, Load fails if a default or an env override names a key
\* (the empty key included) that matches no field, for an env override whether
\* or not its variable is set.
C27_UnknownKeysRejected ==
  (pc = "done" /\ ~resultIsMap) =>
    /\ (\E i \in 1..Len(defaults) : UnknownKey(defaults[i].Key)) => err # NoErr
    /\ (\E e \in 1..Len(envOverrides) : UnknownKey(envOverrides[e].Key)) => err # NoErr

\* an env override with the empty key whose variable is not set
W27_EmptyKeyOfUnsetVariable ==
  /\ pc = "done" /\ ~resultIsMap
  /\ \E e \in 1..Len(envOverrides) :
       /\ envOverrides[e].Key = <<>>
       /\ environ[envOverrides[e].EnvVar] = Unset
       /\ err = Err("UnknownField", "env", e)

\* the branch field g has a value of its own in the merged input
PresentBranch(g) ==
  /\ IsBranch(Ref, g)
  /\ lookupAliased(accumConfigMap, Ref[g].AliasedKey, 1) # Missing

\* C28: an optional branch that is present in the merged input (even as an
\* empty section) does not excuse its children: each child field that is
\* absent and not optional (by tag or by a supplied default) is reported as
\* missing-required and Load fails.  Children are excused only when the
\* optional branch itself is absent (C7).
C28_PresentBranchChildrenRequired ==
  (Finalized /\ ~resultIsMap) =>
    \A g \in 1..Len(Ref) :
      (PresentBranch(g) /\ OptionalField(g)) =>
        \A f \in 1..Len(Ref) :
          (/\ Ref[f].Parent = Ref[g].AliasedKey
           /\ AbsentInAccum(f)
           /\ ~OptionalField(f))
            => (err.kind = "MissingRequired" /\ Reported(f))

\* the optional section is given as an empty section and its required field
\* X is reported
W28_EmptySectionChildReported ==
  /\ Finalized /\ ~resultIsMap
  /\ err.kind = "MissingRequired"
  /\ \E g \in 1..Len(Ref) :
       /\ PresentBranch(g) /\ OptionalField(g)
       /\ lookupAliased(accumConfigMap, Ref[g].AliasedKey, 1) = MapVal(EmptyMap)
       /\ \E f \in 1..Len(Ref) :
            /\ Ref[f].Parent = Ref[g].AliasedKey
            /\ AbsentInAccum(f) /\ ~OptionalField(f)
            /\ Reported(f)

SuppliedBy(n) ==
  LET e == Provenances[n]
      same(path) == KeyEqual(Identity(path), e.aliasedKey)
  IN {defaults[d].Val : d \in {d \in 1..Len(defaults) :
                                 e.Src = "[default]" /\ same(defaults[d].Key)}}
     \cup {l.val : l \in UNION {{l \in readers[d].leaves : same(l.path)} :
                                  d \in {d \in 1..Len(readers) : readerName(d) = e.Src}}}
     \cup {EnvValue(envOverrides[o]) :
             o \in {o \in 1..Len(envOverrides) :
                      /\ environ[envOverrides[o].EnvVar] # Unset
                      /\ DollarName(envOverrides[o].EnvVar) = e.Src
                      /\ same(envOverrides[o].Key)}}

\* C30: after every successful Load, each provenance entry whose source is not
\* "[absent]" names a key path that exists in the returned ConfigMap and whose
\* value there is the one supplied by the named source; no entry refers to a
\* leaf that a later source removed or that was never written.
C30_ProvenanceMatchesResult ==
  Ok =>
    \A n \in 1..Len(Provenances) :
      Provenances[n].Src # "[absent]" =>
        LET final == lookupAliased(ConfigMap, Provenances[n].aliasedKey, 1)
        IN /\ final # Missing
           /\ \E v \in SuppliedBy(n) : ValueMatches(final, v)

====
